---------------------------- MODULE Spec2Model ----------------------------
(***************************************************************************)
(* G-coder: STL -> machinability verdict and STL -> G-code.                *)
(*                                                                         *)
(* Numbers.  The program computes in float64 millimetres.  The model is    *)
(* exact fixed point: a length is an integer count of 1/Resolution mm, a   *)
(* feed an integer count of 1/Resolution mm/min.  Every mesh given to the  *)
(* slicer has even coordinates, so the halves it takes (bounding-box       *)
(* centre, lead-in) stay on the grid.  A tolerance of the program that is  *)
(* far below the grid (1e-6, 1e-9, 1e-10, 1e-12) compares as "differs at   *)
(* all".  The text of a printed number is modelled by its value in         *)
(* thousandths of a millimetre.                                            *)
(***************************************************************************)
EXTENDS Integers, Sequences, FiniteSets, TLC

VARIABLES
    pc,         \* position inside generateGCodeFromSTL
    buffer,     \* the STL buffer handed to generateGCodeFromSTL
    rotation,   \* ModelRotation, each angle a count of quarter turns
    sp,         \* SlicingParams after the defaults are merged
    mp,         \* MachineParams
    gcp,        \* GCodeParams
    triangles,  \* the triangle list (parsed, then rotated)
    layers,     \* Layer[] of sliceMesh
    moves,      \* Move[] of buildMoves, then translatedMoves
    gcode,      \* the emitted program, one record per line
    apc,        \* position inside analyzeConvexity
    stlInput,   \* the STL buffer handed to analyzeConvexity
    options,    \* its ConvexityOptions
    mesh,       \* the positions and cells at this stage
    mach,       \* the MachinabilityResult returned, once returned
    earlier,    \* the MachinabilityResult of the call before this one
    modelRotation, \* its ModelRotation, each angle a count of quarter turns
    result,     \* the rest of the ConvexityAnalysis returned, once returned
    wpc,        \* how many times weldMesh has been applied
    weldIn,     \* the mesh given to weldMesh
    weldEps,    \* its eps, in grid steps
    welded,     \* the meshes weldMesh returned, in order
    slpc,       \* position inside sliceAtZ
    sliceIn,    \* its arguments: the triangles, z and the tolerance
    slSegments, \* its segments
    slUsed,     \* its set used, the indices counted from 1
    slPoly,     \* the polyline being extended
    slPolylines, \* its polylines
    slIndex,    \* the i of its outer loop, counted from 1
    stlData,    \* useGcoder: the file loaded, or none
    analysis,   \* useGcoder: the analysis held, or none
    hookGcode,  \* useGcoder: the gcode held, or none
    hookRotation, \* useGcoder: modelRotation, each angle a count of quarter turns
    isExpanded, \* useGcoder: the panel is open
    timers,     \* the pending setTimeout callbacks, each with the render it closed over
    clicks      \* the handler calls made so far

gvars == <<pc, buffer, rotation, sp, mp, gcp, triangles, layers, moves, gcode>>
avars == <<apc, stlInput, options, mesh, mach, earlier, modelRotation, result>>
wvars == <<wpc, weldIn, weldEps, welded>>
svars == <<slpc, sliceIn, slSegments, slUsed, slPoly, slPolylines, slIndex>>
hvars == <<stlData, analysis, hookGcode, hookRotation, isExpanded, timers, clicks>>
vars == <<gvars, avars, wvars, svars, hvars>>

\* no analysis is under way
AnalysisIdle ==
    /\ apc = "idle" /\ stlInput = << >> /\ options = << >> /\ mesh = << >>
    /\ mach = << >> /\ earlier = << >> /\ modelRotation = << >> /\ result = << >>

\* weldMesh is not being tried on its own
WeldIdle == wpc = "idle" /\ weldIn = << >> /\ weldEps = 0 /\ welded = << >>

\* sliceAtZ is not being stepped through
SliceIdle ==
    /\ slpc = "idle" /\ sliceIn = << >> /\ slSegments = << >> /\ slUsed = {}
    /\ slPoly = << >> /\ slPolylines = << >> /\ slIndex = 0

\* no component uses the hook
HookIdle ==
    /\ stlData = << >> /\ analysis = << >> /\ hookGcode = << >>
    /\ hookRotation = << >> /\ isExpanded = FALSE /\ timers = {} /\ clicks = 0

\* no generation is under way
GenerationIdle ==
    /\ pc = "idle" /\ buffer = << >> /\ rotation = << >> /\ sp = << >> /\ mp = << >>
    /\ gcp = << >> /\ triangles = << >> /\ layers = << >> /\ moves = << >> /\ gcode = << >>

---------------------------------------------------------------------------
(* Bounds of the model *)

Resolution == 8          \* grid steps per millimetre
MaxGap == 1              \* largest bed gap tried, in grid steps
MaxPrecision == 1        \* coarse precisions tried: 0..MaxPrecision decimals

---------------------------------------------------------------------------
(* Arithmetic *)

Abs(a) == IF a < 0 THEN -a ELSE a
Min2(a, b) == IF a < b THEN a ELSE b
Max2(a, b) == IF a > b THEN a ELSE b
SetMin(S) == CHOOSE m \in S : \A e \in S : m <= e
SetMax(S) == CHOOSE m \in S : \A e \in S : m >= e
\* n / d, rounded down (d # 0)
Div(n, d) == IF d > 0 THEN n \div d ELSE (-n) \div (-d)
\* Math.ceil(n / d), d > 0
CeilDiv(n, d) == -((-n) \div d)
\* the integer nearest to n / d (d > 0), a tie going away from zero
RoundHalfAway(n, d) ==
    IF n >= 0 THEN (2 * n + d) \div (2 * d) ELSE -((2 * (-n) + d) \div (2 * d))
\* floor of the square root
ISqrt(n) == CHOOSE r \in 0..n : r * r <= n /\ (r + 1) * (r + 1) > n
Pow10(p) == CASE p = 0 -> 1 [] p = 1 -> 10 [] p = 2 -> 100 [] OTHER -> 1000
Reverse(s) == [i \in 1..Len(s) |-> s[Len(s) + 1 - i]]
RECURSIVE Flatten(_)
Flatten(ss) == IF ss = <<>> THEN <<>> ELSE Head(ss) \o Flatten(Tail(ss))

---------------------------------------------------------------------------
(* Meshes *)

Vec(x, y, z) == [x |-> x, y |-> y, z |-> z]
Tri(a, b, c) == [v1 |-> a, v2 |-> b, v3 |-> c]

\* the twelve triangles of a closed box, as the tests build them
createBox(x0, y0, z0, x1, y1, z1) ==
    << Tri(Vec(x0,y0,z0), Vec(x1,y0,z0), Vec(x0,y1,z0)), Tri(Vec(x1,y0,z0), Vec(x1,y1,z0), Vec(x0,y1,z0)),
       Tri(Vec(x0,y0,z1), Vec(x0,y1,z1), Vec(x1,y0,z1)), Tri(Vec(x1,y0,z1), Vec(x0,y1,z1), Vec(x1,y1,z1)),
       Tri(Vec(x0,y0,z0), Vec(x0,y0,z1), Vec(x1,y0,z0)), Tri(Vec(x1,y0,z0), Vec(x0,y0,z1), Vec(x1,y0,z1)),
       Tri(Vec(x0,y1,z0), Vec(x1,y1,z0), Vec(x0,y1,z1)), Tri(Vec(x1,y1,z0), Vec(x1,y1,z1), Vec(x0,y1,z1)),
       Tri(Vec(x0,y0,z0), Vec(x0,y1,z0), Vec(x0,y0,z1)), Tri(Vec(x0,y1,z0), Vec(x0,y1,z1), Vec(x0,y0,z1)),
       Tri(Vec(x1,y0,z0), Vec(x1,y0,z1), Vec(x1,y1,z0)), Tri(Vec(x1,y1,z0), Vec(x1,y0,z1), Vec(x1,y1,z1)) >>

\* A closed bipyramid: two apexes a1, a2 over the quadrilateral q1 q2 q3 q4.
\* Every edge lies on exactly two of its eight triangles.
Bipyramid(a1, a2, q1, q2, q3, q4) ==
    << Tri(a1, q1, q2), Tri(a1, q2, q3), Tri(a1, q3, q4), Tri(a1, q4, q1),
       Tri(a2, q2, q1), Tri(a2, q3, q2), Tri(a2, q4, q3), Tri(a2, q1, q4) >>

\* Two disjoint closed solids.  In each, the rim alternates low, high, low,
\* high around the apexes, and the apexes lie at a height between: every
\* triangle has one vertex below, one at and one above the apex height.
SaddlePair ==
    Bipyramid(Vec(0, 8, 8), Vec(16, 8, 8),
              Vec(8, 8, 0), Vec(8, 0, 12), Vec(8, 8, 2), Vec(8, 16, 12))
    \o Bipyramid(Vec(0, 40, 16), Vec(16, 40, 16),
                 Vec(8, 40, 10), Vec(8, 32, 22), Vec(8, 40, 12), Vec(8, 48, 22))

Cube == createBox(0, 0, 0, 16, 16, 16)
Plate == createBox(0, 0, 0, 24, 16, 8)
SunkBox == createBox(0, 0, -6, 8, 8, 10)
RaisedBox == createBox(2, 2, 4, 10, 10, 12)
\* a cube with the plane z = 0 through its middle
CentredBox == createBox(0, 0, -8, 16, 16, 8)
\* a cube and, beside it, an open upright rectangle: a surface without inside
FencedCube ==
    Cube \o << Tri(Vec(0,24,0), Vec(16,24,0), Vec(0,24,16)),
               Tri(Vec(16,24,0), Vec(16,24,16), Vec(0,24,16)) >>

\* a binary STL buffer: the declared triangle count and the records whose
\* vertices are present
Stl(tris) == [count |-> Len(tris), tris |-> tris]
\* the same buffer without its last two bytes, the attribute of the last record
CutStl(tris) == [count |-> Len(tris), tris |-> tris, cut |-> TRUE]
\* an ASCII STL: the facets, and the count of the numbers after "vertex"
AsciiStl(tris, extra) == [floats |-> 9 * Len(tris) + extra, tris |-> tris]

isAscii(buf) == "floats" \in DOMAIN buf
\* the bytes of a binary buffer
byteLength(buf) == 84 + 50 * Len(buf.tris) - (IF "cut" \in DOMAIN buf THEN 2 ELSE 0)

Buffers ==
    { Stl(Cube), Stl(Plate), Stl(SunkBox), Stl(RaisedBox), Stl(SaddlePair), Stl(CentredBox),
      Stl(FencedCube), CutStl(Cube),
      [count |-> 13, tris |-> Cube], AsciiStl(Cube, 0) }

---------------------------------------------------------------------------
(* stl-to-gcode.ts *)

\* parseSTL: the first `count` records.  (A record's stored normal is read
\* and never used by the slicer; it is left out of the model.)
parseSTL(buf) == SubSeq(buf.tris, 1, buf.count)

\* parseSTL reads a record past the end of the buffer, and the DataView
\* throws a RangeError.  The count it reads in a text is four characters,
\* over 150 million records, more than the text holds.
parseSTLThrows(buf) == IF isAscii(buf) THEN TRUE ELSE buf.count > Len(buf.tris)

Cos4(q) == CASE q % 4 = 0 -> 1 [] q % 4 = 1 -> 0 [] q % 4 = 2 -> -1 [] OTHER -> 0
Sin4(q) == CASE q % 4 = 0 -> 0 [] q % 4 = 1 -> 1 [] q % 4 = 2 -> 0 [] OTHER -> -1

rotateVertex(v, rot) ==
    LET y1 == v.y * Cos4(rot.x) - v.z * Sin4(rot.x)
        z1 == v.y * Sin4(rot.x) + v.z * Cos4(rot.x)
        x2 == v.x * Cos4(rot.y) + z1 * Sin4(rot.y)
        z2 == -v.x * Sin4(rot.y) + z1 * Cos4(rot.y)
        x3 == x2 * Cos4(rot.z) - y1 * Sin4(rot.z)
        y3 == x2 * Sin4(rot.z) + y1 * Cos4(rot.z)
    IN  Vec(x3, y3, z2)

IsZeroRotation(rot) == rot.x = 0 /\ rot.y = 0 /\ rot.z = 0

applyRotation(tris, rot) ==
    IF IsZeroRotation(rot) THEN tris
    ELSE [i \in 1..Len(tris) |->
            Tri(rotateVertex(tris[i].v1, rot), rotateVertex(tris[i].v2, rot),
                rotateVertex(tris[i].v3, rot))]

Vertices(tris) == UNION { {tris[i].v1, tris[i].v2, tris[i].v3} : i \in 1..Len(tris) }

getMeshBounds(tris) ==
    LET V == Vertices(tris)
    IN  [min |-> Vec(SetMin({v.x : v \in V}), SetMin({v.y : v \in V}), SetMin({v.z : v \in V})),
         max |-> Vec(SetMax({v.x : v \in V}), SetMax({v.y : v \in V}), SetMax({v.z : v \in V}))]

\* the optional rotation about the centre of the bounding box
rotateCentered(tris, rot) ==
    IF IsZeroRotation(rot) THEN tris
    ELSE LET b == getMeshBounds(tris)
             cx == (b.min.x + b.max.x) \div 2
             cy == (b.min.y + b.max.y) \div 2
             cz == (b.min.z + b.max.z) \div 2
             sub(v) == Vec(v.x - cx, v.y - cy, v.z - cz)
             centered == [i \in 1..Len(tris) |->
                            Tri(sub(tris[i].v1), sub(tris[i].v2), sub(tris[i].v3))]
         IN  applyRotation(centered, rot)

computeLayers(zMin, zMax, layerHeight, topDown) ==
    LET n == Max2(1, CeilDiv(zMax - zMin, layerHeight))
        up == [i \in 1..(n + 1) |-> zMin + (i - 1) * layerHeight]
    IN  IF topDown THEN Reverse(up) ELSE up

\* one edge of a triangle against the plane Z = z: no point or one
edgePoint(a, b, z) ==
    IF ((a.z <= z /\ b.z >= z) \/ (a.z >= z /\ b.z <= z)) /\ b.z # a.z
    THEN << Vec(a.x + Div((z - a.z) * (b.x - a.x), b.z - a.z),
                a.y + Div((z - a.z) * (b.y - a.y), b.z - a.z), z) >>
    ELSE << >>

intersectTriangleWithPlane(tri, z) ==
    edgePoint(tri.v1, tri.v2, z) \o edgePoint(tri.v2, tri.v3, z) \o edgePoint(tri.v3, tri.v1, z)

\* the segments of a plane: one per triangle with exactly two points
planeSegments(tris, z) ==
    LET F[i \in 0..Len(tris)] ==
            IF i = 0 THEN << >>
            ELSE LET pts == intersectTriangleWithPlane(tris[i], z)
                 IN  IF Len(pts) = 2 THEN Append(F[i - 1], pts) ELSE F[i - 1]
    IN  F[Len(tris)]

Hypot2(a, b) == (a.x - b.x) * (a.x - b.x) + (a.y - b.y) * (a.y - b.y)

\* Math.hypot(a - b) < tolerance, the tolerance in hundredths of a millimetre
Near(a, b, tol) ==
    tol > 0 /\ 10000 * Hypot2(a, b) < (tol * Resolution) * (tol * Resolution)

\* the inner while loop of sliceAtZ: extend the polyline at its tail by the
\* first unused segment that has an end within the tolerance
RECURSIVE extendPolyline(_, _, _, _)
extendPolyline(segments, poly, used, tol) ==
    LET last == poly[Len(poly)]
        cand == { j \in 1..Len(segments) : j \notin used /\
                    (Near(last, segments[j][1], tol) \/ Near(last, segments[j][2], tol)) }
    IN  IF cand = {} THEN [poly |-> poly, used |-> used]
        ELSE LET j == SetMin(cand)
                 nxt == IF Near(last, segments[j][1], tol)
                        THEN segments[j][2] ELSE segments[j][1]
             IN  extendPolyline(segments, Append(poly, nxt), used \cup {j}, tol)

RECURSIVE chainSegments(_, _, _, _, _)
chainSegments(segments, i, used, polylines, tol) ==
    IF i > Len(segments) THEN polylines
    ELSE IF i \in used THEN chainSegments(segments, i + 1, used, polylines, tol)
    ELSE LET r == extendPolyline(segments, segments[i], used \cup {i}, tol)
         IN  chainSegments(segments, i + 1, r.used,
                           Append(polylines, [points |-> r.poly]), tol)

sliceAtZ(tris, z, tolerance) ==
    chainSegments(planeSegments(tris, z), 1, {}, << >>, tolerance)

\* a closing that appends the first point without looking at the last
closeLoopAlways(poly) ==
    IF Len(poly.points) >= 2
    THEN [points |-> Append(poly.points, poly.points[1])] ELSE poly

\* the closing of one polyline when closeLoops is set
closeLoop(poly) ==
    LET pts == poly.points
    IN  IF Len(pts) >= 2 /\ Hypot2(pts[1], pts[Len(pts)]) > 0
        THEN [points |-> Append(pts, pts[1])] ELSE poly

\* the body of sliceMesh's loop for plane number i (0-based) at height z
sliceLayer(tris, params, i, z) ==
    LET raw == sliceAtZ(tris, z, params.contourTol)
        closed == IF params.closeLoops
                  THEN [k \in 1..Len(raw) |-> closeLoop(raw[k])] ELSE raw
        zz == IF params.zigzag /\ i % 2 = 1
              THEN [k \in 1..Len(closed) |-> [points |-> Reverse(closed[k].points)]]
              ELSE closed
    IN  IF Len(zz) > 0 THEN << [z |-> z, polylines |-> zz] >> ELSE << >>

sliceMesh(tris, params) ==
    LET bounds == getMeshBounds(tris)
        zs == computeLayers(bounds.min.z, bounds.max.z, params.layerHeight, params.topDown)
    IN  Flatten([i \in 1..Len(zs) |-> sliceLayer(tris, params, i - 1, zs[i])])

\* one polyline's moves without the lead-in, and with the retract over the
\* start instead of the end
polylineMovesRetractAtStart(poly, z, params) ==
    LET pts == poly.points
        start == pts[1]
        cut(type, x, y, zz, feed) ==
            [type |-> type, x |-> <<x>>, y |-> <<y>>, z |-> <<zz>>, feed |-> feed]
    IN  IF Len(pts) = 0 THEN << >>
        ELSE << cut("G0", start.x, start.y, params.zSafe, << >>),
                cut("G1", start.x, start.y, z, <<params.feedZ>>) >>
             \o [i \in 1..(Len(pts) - 1) |->
                    cut("G1", pts[i + 1].x, pts[i + 1].y, z, <<params.feedXY>>)]
             \o << cut("G0", start.x, start.y, params.zSafe, << >>) >>

\* the moves of one polyline of a layer
polylineMoves(poly, z, params) ==
    LET pts == poly.points
        start == pts[1]
        end == pts[Len(pts)]
        cut(type, x, y, zz, feed) ==
            [type |-> type, x |-> <<x>>, y |-> <<y>>, z |-> <<zz>>, feed |-> feed]
        dx == pts[2].x - start.x
        dy == pts[2].y - start.y
        h == ISqrt(dx * dx + dy * dy)
        \* len = Math.hypot(dx, dy) || 1 (one millimetre)
        len == IF h = 0 THEN Resolution ELSE h
        \* li = Math.min(leadIn, len * 0.5), kept doubled
        li2 == Min2(2 * params.leadIn, len)
        leadIn == IF params.leadIn > 0 /\ Len(pts) > 1
                  THEN << cut("G1", start.x + Div(dx * li2, 2 * len),
                              start.y + Div(dy * li2, 2 * len), z, <<params.feedXY>>) >>
                  ELSE << >>
    IN  IF Len(pts) = 0 THEN << >>
        ELSE << cut("G0", start.x, start.y, params.zSafe, << >>),
                cut("G1", start.x, start.y, z, <<params.feedZ>>) >>
             \o leadIn
             \o [i \in 1..(Len(pts) - 1) |->
                    cut("G1", pts[i + 1].x, pts[i + 1].y, z, <<params.feedXY>>)]
             \o << cut("G0", end.x, end.y, params.zSafe, << >>) >>

buildMoves(lys, params) ==
    Flatten([l \in 1..Len(lys) |->
        Flatten([k \in 1..Len(lys[l].polylines) |->
            polylineMoves(lys[l].polylines[k], lys[l].z, params)])])

\* fmtNum: the value of x.toFixed(precision), in thousandths.  (The text
\* "-0.000" that the function rewrites has the value of "0.000".)
fmtNum(x, precision) ==
    RoundHalfAway(x * Pow10(precision), Resolution) * (1000 \div Pow10(precision))

\* one line of the program: its kind, its leading word, and the words that
\* follow (a sequence is empty when the word is absent)
Line(k, g, x, y, z, f, s) == [k |-> k, g |-> g, x |-> x, y |-> y, z |-> z, f |-> f, s |-> s]
Word(w) == Line("word", w, << >>, << >>, << >>, << >>, << >>)
Comment(w) == Line("comment", w, << >>, << >>, << >>, << >>, << >>)
SafeHeight(params) ==
    Line("motion", "G0", << >>, << >>, <<fmtNum(params.zSafe, params.precision)>>, << >>, << >>)

gcodeHeader(params) ==
    << Comment("Program"), Comment("Generated"),
       Word(IF params.unitsMm THEN "G21" ELSE "G20"),
       Word(IF params.absolute THEN "G90" ELSE "G91"),
       Word("G17"),
       SafeHeight(params) >>
    \o (IF params.spindleOn
        THEN << Line("spindle", "M3", << >>, << >>, << >>, << >>, <<params.spindleRpm>>) >>
        ELSE << >>)

\* a footer that stops the program before it stops the spindle
gcodeFooterStopFirst(params) ==
    << SafeHeight(params) >>
    \o << Word("M30") >>
    \o (IF params.spindleOn THEN << Word("M5") >> ELSE << >>)

gcodeFooter(params) ==
    << SafeHeight(params) >>
    \o (IF params.spindleOn THEN << Word("M5") >> ELSE << >>)
    \o << Word("M30") >>

\* an emitter without the feed register: every cutting line carries F
emitsFeedAlways(move, currentFeed) ==
    move.type = "G1" /\ move.feed # << >>

\* does this move put the feed word on its line (currentFeed is empty at first)
emitsFeed(move, currentFeed) ==
    move.type = "G1" /\ move.feed # << >> /\
    (currentFeed = << >> \/ Abs(move.feed[1] - currentFeed[1]) > 0)

\* an emitter without the mode register: every line carries its G word
emitsModeAlways(move, currentMode) == TRUE

\* does this move put its motion type on its line (currentMode is "" at first)
emitsMode(move, currentMode) == move.type # currentMode

\* the loop over the moves, with its two modal registers
RECURSIVE gcodeBody(_, _, _, _, _)
gcodeBody(mvs, i, currentMode, currentFeed, params) ==
    IF i > Len(mvs) THEN << >>
    ELSE LET move == mvs[i]
             fmt(c) == IF c = << >> THEN << >> ELSE << fmtNum(c[1], params.precision) >>
             withF == emitsFeed(move, currentFeed)
             line == Line("motion",
                          IF emitsMode(move, currentMode) THEN move.type ELSE "",
                          fmt(move.x), fmt(move.y), fmt(move.z),
                          IF withF THEN << fmtNum(move.feed[1], 0) >> ELSE << >>,
                          << >>)
             empty == line.g = "" /\ line.x = << >> /\ line.y = << >> /\
                      line.z = << >> /\ line.f = << >>
         IN  (IF empty THEN << >> ELSE << line >>)
             \o gcodeBody(mvs, i + 1, move.type,
                          IF withF THEN move.feed ELSE currentFeed, params)

generateGCode(mvs, params) ==
    gcodeHeader(params) \o gcodeBody(mvs, 1, "", << >>, params) \o gcodeFooter(params)

\* the lift that keeps the lowest point of the mesh off the bed
zLiftOf(tris, params) ==
    IF params.snapBottomToBed
    THEN Max2(0, (params.zBed + params.zGap) - getMeshBounds(tris).min.z)
    ELSE 0

\* a translation that lifts the safe height but leaves the moves' Z alone
translateMovesNoLift(mvs, tris, params) ==
    LET b == getMeshBounds(tris)
        sh(c, d) == IF c = << >> THEN << >> ELSE << c[1] + d >>
    IN  [i \in 1..Len(mvs) |->
            [mvs[i] EXCEPT !.x = sh(@, -b.min.x + params.xyMargin),
                           !.y = sh(@, -b.min.y + params.xyMargin)]]

translateMoves(mvs, tris, params) ==
    LET b == getMeshBounds(tris)
        translateX == -b.min.x + params.xyMargin
        translateY == -b.min.y + params.xyMargin
        zLift == zLiftOf(tris, params)
        sh(c, d) == IF c = << >> THEN << >> ELSE << c[1] + d >>
    IN  [i \in 1..Len(mvs) |->
            [mvs[i] EXCEPT !.x = sh(@, translateX), !.y = sh(@, translateY),
                           !.z = sh(@, zLift)]]

---------------------------------------------------------------------------
(* convexity.ts: from the buffer to the oriented mesh.  A mesh is a list of  *)
(* positions and a list of cells, a cell being three indices into the       *)
(* positions (counted from 1 here, from 0 in the program).                  *)

RECURSIVE GcdNat(_, _)
GcdNat(a, b) == IF b = 0 THEN a ELSE GcdNat(b, a % b)
Gcd(a, b) == GcdNat(Abs(a), Abs(b))
Sub(a, b) == Vec(a.x - b.x, a.y - b.y, a.z - b.z)
Cross(u, v) == Vec(u.y * v.z - u.z * v.y, u.z * v.x - u.x * v.z, u.x * v.y - u.y * v.x)
Dot(u, v) == u.x * v.x + u.y * v.y + u.z * v.z

\* parseBinarySTL: a buffer shorter than its declared count needs is refused
parseBinarySTL(buf) ==
    IF byteLength(buf) < 84 + 50 * buf.count THEN [thrown |-> TRUE, tris |-> << >>]
    ELSE [thrown |-> FALSE, tris |-> SubSeq(buf.tris, 1, buf.count)]

\* parseAsciiSTL: the numbers must come in nines
parseAsciiSTL(buf) ==
    IF buf.floats % 9 # 0 THEN [thrown |-> TRUE, tris |-> << >>]
    ELSE [thrown |-> FALSE, tris |-> buf.tris]

\* parseSTL of convexity.ts: three fresh positions and one cell per triangle
parseIndexedSTL(buf) ==
    LET r == IF isAscii(buf) THEN parseAsciiSTL(buf) ELSE parseBinarySTL(buf)
        vertexOf(t, k) == CASE k = 0 -> t.v1 [] k = 1 -> t.v2 [] OTHER -> t.v3
    IN  [thrown |-> r.thrown,
         positions |-> [i \in 1..3 * Len(r.tris) |->
                           vertexOf(r.tris[(i + 2) \div 3], (i + 2) % 3)],
         cells |-> [i \in 1..Len(r.tris) |-> <<3 * i - 2, 3 * i - 1, 3 * i>>]]

\* bbox; empty when there is no position (the program's box is then made of
\* infinities)
bbox(points) ==
    IF Len(points) = 0 THEN [empty |-> TRUE, dx |-> 0, dy |-> 0, dz |-> 0, diagSq |-> 0]
    ELSE LET xs == { points[i].x : i \in 1..Len(points) }
             ys == { points[i].y : i \in 1..Len(points) }
             zs == { points[i].z : i \in 1..Len(points) }
             dx == SetMax(xs) - SetMin(xs)
             dy == SetMax(ys) - SetMin(ys)
             dz == SetMax(zs) - SetMin(zs)
         IN  [empty |-> FALSE, min |-> Vec(SetMin(xs), SetMin(ys), SetMin(zs)),
              max |-> Vec(SetMax(xs), SetMax(ys), SetMax(zs)),
              dx |-> dx, dy |-> dy, dz |-> dz, diagSq |-> dx * dx + dy * dy + dz * dz]

\* isThinBBox with lenEps = 1e-6 * max(diag, 1): an extent below it is an
\* extent of zero on the grid.  Without positions dx = -Infinity is below
\* lenEps = Infinity.
isThinBBox(b) == b.empty \/ b.dx = 0 \/ b.dy = 0 \/ b.dz = 0

\* sanitizeMesh: drops the cells of no area, then the positions no cell uses
sanitizeMesh(positionsIn, cellsIn) ==
    LET hasArea(c) ==
            LET a == positionsIn[c[1]]
                e == Cross(Sub(positionsIn[c[2]], a), Sub(positionsIn[c[3]], a))
            IN  Dot(e, e) > 0
        cellsOut == SelectSeq(cellsIn, hasArea)
        keepV == UNION { {cellsOut[i][1], cellsOut[i][2], cellsOut[i][3]} : i \in 1..Len(cellsOut) }
        idx(i) == Cardinality({ j \in keepV : j <= i })
        kept(n) == CHOOSE i \in keepV : idx(i) = n
    IN  [positions |-> [n \in 1..Cardinality(keepV) |-> positionsIn[kept(n)]],
         cells |-> [i \in 1..Len(cellsOut) |->
                       <<idx(cellsOut[i][1]), idx(cellsOut[i][2]), idx(cellsOut[i][3])>>]]

\* Math.round(c / eps), halves rounded up; c and eps in grid steps
roundDiv(c, eps) == (2 * c + eps) \div (2 * eps)

\* the key of weldMesh
weldKey(p, eps) == <<roundDiv(p.x, eps), roundDiv(p.y, eps), roundDiv(p.z, eps)>>

\* the weld of the analysis has eps = 1e-6 of the diagonal, below one grid
\* step: two grid positions share a key exactly when they are equal, as
\* with an eps of one step
GridEps == 1

\* weldMesh with every kept position moved by half of eps
weldMeshShifting(positions, cells, eps) ==
    LET first(i) ==
            SetMin({ j \in 1..Len(positions) :
                       weldKey(positions[j], eps) = weldKey(positions[i], eps) })
        firsts == { first(i) : i \in 1..Len(positions) }
        rank == [f \in firsts |-> Cardinality({ g \in firsts : g <= f })]
        remap == [i \in 1..Len(positions) |-> rank[first(i)]]
        at(n) == CHOOSE f \in firsts : rank[f] = n
        moved == [i \in 1..Len(cells) |->
                     <<remap[cells[i][1]], remap[cells[i][2]], remap[cells[i][3]]>>]
        half == (eps + 1) \div 2
    IN  [positions |-> [n \in 1..Cardinality(firsts) |->
                           Vec(positions[at(n)].x + half, positions[at(n)].y + half,
                               positions[at(n)].z + half)],
         cells |-> SelectSeq(moved, LAMBDA c : c[1] # c[2] /\ c[2] # c[3] /\ c[1] # c[3])]

\* weldMesh: positions with one key become the first of them; a cell that
\* loses a corner is dropped
weldMesh(positions, cells, eps) ==
    LET first(i) ==
            SetMin({ j \in 1..Len(positions) :
                       weldKey(positions[j], eps) = weldKey(positions[i], eps) })
        firsts == { first(i) : i \in 1..Len(positions) }
        rank == [f \in firsts |-> Cardinality({ g \in firsts : g <= f })]
        remap == [i \in 1..Len(positions) |-> rank[first(i)]]
        at(n) == CHOOSE f \in firsts : rank[f] = n
        moved == [i \in 1..Len(cells) |->
                     <<remap[cells[i][1]], remap[cells[i][2]], remap[cells[i][3]]>>]
    IN  [positions |-> [n \in 1..Cardinality(firsts) |-> positions[at(n)]],
         cells |-> SelectSeq(moved, LAMBDA c : c[1] # c[2] /\ c[2] # c[3] /\ c[1] # c[3])]

\* triNormal: the direction of the normal.  The program divides the cross
\* product by its length; the model divides it by the gcd of its components
\* and compares a component with a threshold through squares.
triNormal(p0, p1, p2) ==
    LET n == Cross(Sub(p1, p0), Sub(p2, p0))
        g == Gcd(n.x, Gcd(n.y, n.z))
    IN  IF g = 0 THEN n ELSE Vec(n.x \div g, n.y \div g, n.z \div g)

\* n.z / |n| < -c, for a threshold c >= 0 given by its square sq[1] / sq[2]
NzBelow(n, sq) == n.z < 0 /\ sq[2] * n.z * n.z > sq[1] * Dot(n, n)

\* cells left as the file winds them
orientFacesAsGiven(positions, cells) == cells

\* every cell turned round, whichever way it faces
orientFacesTurned(positions, cells) ==
    [i \in 1..Len(cells) |-> <<cells[i][1], cells[i][3], cells[i][2]>>]

\* orientFacesOutward: a cell whose normal points toward the centroid of the
\* positions is turned round.  (The program does this on the positions
\* scaled into a unit box, which changes no sign; the dot product below is
\* the program's times 3 * Len(positions) * |n|.)
orientFacesOutward(positions, cells) ==
    LET n == Len(positions)
        RECURSIVE sum(_)
        sum(i) == IF i = 0 THEN Vec(0, 0, 0)
                  ELSE LET r == sum(i - 1)
                       IN  Vec(r.x + positions[i].x, r.y + positions[i].y, r.z + positions[i].z)
        c3 == sum(n)
        outward(c) ==
            LET p0 == positions[c[1]]
                p1 == positions[c[2]]
                p2 == positions[c[3]]
                v == Vec(n * (p0.x + p1.x + p2.x) - 3 * c3.x,
                         n * (p0.y + p1.y + p2.y) - 3 * c3.y,
                         n * (p0.z + p1.z + p2.z) - 3 * c3.z)
            IN  Dot(triNormal(p0, p1, p2), v) >= 0
    IN  [i \in 1..Len(cells) |->
            IF outward(cells[i]) THEN cells[i]
            ELSE <<cells[i][1], cells[i][3], cells[i][2]>>]

---------------------------------------------------------------------------
(* convexity.ts: computeMachinabilityFromMesh.  A ratio is a fraction in     *)
(* lowest terms, <<numerator, denominator>>.                                 *)

Ratio(n, d) == IF n = 0 THEN <<0, 1>> ELSE <<n \div Gcd(n, d), d \div Gcd(n, d)>>
\* r <= num / den
RatioAtMost(r, num, den) == r[1] * den <= num * r[2]
\* r >= num / den
RatioAtLeast(r, num, den) == r[1] * den >= num * r[2]
\* Math.round(n / d), n >= 0: a tie goes up
MathRound(n, d) == (2 * n + d) \div (2 * d)

GridDefault == 128
GridMin == 32
GridMax == 512
gridOf(opts) ==
    Max2(GridMin, Min2(IF opts.grid = << >> THEN GridDefault ELSE opts.grid[1], GridMax))

\* the square of cosMax, for maxUpAngleDeg in tenths of a degree clamped to
\* [0, 89.9]: cos(89.9 deg)^2 = 3.046171e-6 = 1 / 328280.97
MaxUpAngleDefault == 899
cosMaxSq(opts) ==
    LET deg == Max2(0, Min2(IF opts.maxUpAngleDeg = << >> THEN MaxUpAngleDefault
                            ELSE opts.maxUpAngleDeg[1], MaxUpAngleDefault))
    IN  CASE deg = 0 -> <<1, 1>>
          [] deg = 450 -> <<1, 2>>
          [] deg = 600 -> <<1, 4>>
          [] OTHER -> <<1, 328281>>

triXYBounds(p0, p1, p2) ==
    [minX |-> SetMin({p0.x, p1.x, p2.x}), maxX |-> SetMax({p0.x, p1.x, p2.x}),
     minY |-> SetMin({p0.y, p1.y, p2.y}), maxY |-> SetMax({p0.y, p1.y, p2.y})]

\* rayZHit at the point (x / s, y / s): << >> for no hit, else <<z>>.  The
\* barycentric weights are kept times s * den; -1e-12 is zero on the grid.
rayZHit(x, y, s, p0, p1, p2) ==
    LET den == (p1.y - p2.y) * (p0.x - p2.x) + (p2.x - p1.x) * (p0.y - p2.y)
        sg == IF den < 0 THEN -1 ELSE 1
        l1 == sg * ((p1.y - p2.y) * (x - s * p2.x) + (p2.x - p1.x) * (y - s * p2.y))
        l2 == sg * ((p2.y - p0.y) * (x - s * p2.x) + (p0.x - p2.x) * (y - s * p2.y))
        l3 == s * sg * den - l1 - l2
    IN  IF den = 0 \/ l1 < 0 \/ l2 < 0 \/ l3 < 0 THEN << >>
        ELSE << (l1 * p0.z + l2 * p1.z + l3 * p2.z) \div (s * sg * den) >>

\* floor of the square root, by bisection
RECURSIVE SqrtBetween(_, _, _)
SqrtBetween(n, lo, hi) ==
    IF hi - lo <= 1 THEN lo
    ELSE LET mid == (lo + hi) \div 2
         IN  IF mid * mid <= n THEN SqrtBetween(n, mid, hi) ELSE SqrtBetween(n, lo, mid)
FloorSqrt(n) == SqrtBetween(n, 0, 46340)

\* a - b > diag * num / den, for a length diag given by its square and
\* integers a, b
Beyond(a, b, diagSq, num, den) == den * (a - b) > num * FloorSqrt(diagSq)

\* Math.round(z * binK) with binK = 1 / basePlaneTol = 500 / diag; a tie goes up
baseBin(z, diagSq) ==
    IF z >= 0
    THEN CHOOSE b \in 0..(1000 * z + 1) :
            /\ (2 * b - 1 <= 0 \/ (2 * b - 1) * (2 * b - 1) * diagSq <= 1000000 * z * z)
            /\ 1000000 * z * z < (2 * b + 1) * (2 * b + 1) * diagSq
    ELSE 0 - (CHOOSE b \in 0..(1 - 1000 * z) :
                /\ (2 * b - 1 <= 0 \/ (2 * b - 1) * (2 * b - 1) * diagSq < 1000000 * z * z)
                /\ 1000000 * z * z <= (2 * b + 1) * (2 * b + 1) * diagSq)

\* a column with air between two of its contacts
hasAirGapNever(contacts) == FALSE
hasAirGap(contacts) == contacts > 2

\* the contacts of the vertical ray of one column, at (x / s, y / s), with
\* the triangles: pairs of a triangle's index and the height of the contact
columnHits(tris, x, y, s) ==
    LET hit(i) == IF \/ x < s * tris[i].bb.minX \/ x > s * tris[i].bb.maxX
                     \/ y < s * tris[i].bb.minY \/ y > s * tris[i].bb.maxY
                  THEN << >>
                  ELSE rayZHit(x, y, s, tris[i].p0, tris[i].p1, tris[i].p2)
        contact(i, z) == IF z = << >> THEN {} ELSE { <<i, z[1]>> }
    IN  UNION { contact(i, hit(i)) : i \in 1..Len(tris) }

\* groups, top to bottom: a hit within zEps = diag * 1e-5 of the last group
\* joins it; the group keeps the first of its hits
RECURSIVE groupsFrom(_, _, _)
groupsFrom(rest, last, diagSq) ==
    IF rest = {} THEN << >>
    ELSE LET z == SetMax(rest)
         IN  IF last # << >> /\ ~Beyond(100000 * last[1], 100000 * z, diagSq, 1, 1)
             THEN groupsFrom(rest \ {z}, last, diagSq)
             ELSE << z >> \o groupsFrom(rest \ {z}, << z >>, diagSq)

\* the three findings of the loop body for a column with hits and its groups
columnFindings(tris, hits, groups, b, cosSq) ==
    LET nOf(z) == tris[SetMin({ h[1] : h \in { g \in hits : g[2] = z } })].n
        topDown == /\ ~NzBelow(nOf(groups[1]), <<361, 400>>)
                   /\ NzBelow(nOf(groups[1]), cosSq)
        isUndercut == hasAirGap(Len(groups))
        isOverhang == \E k \in 1..Len(groups) :
                         /\ NzBelow(nOf(groups[k]), <<1, 100>>)
                         /\ Beyond(500 * groups[k], 500 * b.min.z, b.diagSq, 1, 1)
    IN  [hit |-> TRUE, zLow |-> groups[Len(groups)], contacts |-> Len(groups),
         topDown |-> topDown, undercut |-> isUndercut \/ isOverhang,
         ok |-> ~isUndercut /\ ~isOverhang /\ ~topDown]

\* a column without hits is skipped
columnOf(tris, hits, b, cosSq) ==
    IF hits = {} THEN [hit |-> FALSE]
    ELSE columnFindings(tris, hits, groupsFrom({ h[2] : h \in hits }, << >>, b.diagSq),
                        b, cosSq)

\* what one column of the grid sees: hit or not, and for a hit its lowest
\* contact and the three findings of the loop body
castColumn(tris, ix, iy, s, b, cosSq) ==
    columnOf(tris, columnHits(tris, s * b.min.x + ix * b.dx, s * b.min.y + iy * b.dy, s),
             b, cosSq)

\* the record of the early return without triangles, which is also the
\* record analyzeConvexity builds in its catch
NoMachinability(details) ==
    [isThreeAxisMachable |-> FALSE, accessibilityScore |-> 0,
     topFaceDownRatio |-> <<1, 1>>, undercutRatio |-> <<1, 1>>,
     overhangRatio |-> <<1, 1>>, baseFlatRatio |-> <<0, 1>>, samples |-> 0,
     details |-> details, failureReason |-> << >>, warnings |-> << >>]

\* a verdict that flatness of the base gates as well
isThreeAxisMachableWithBase(passUndercuts, passTop, passAccess, passBase) ==
    passUndercuts /\ passTop /\ passAccess /\ passBase

\* reasons that itemize the base as well
failsWithBase(passUndercuts, passTop, passAccess, passBase) ==
    (IF passUndercuts THEN << >> ELSE << "Undercuts (Socavados/Panza)" >>)
    \o (IF passTop THEN << >> ELSE << "Caras Invertidas" >>)
    \o (IF passAccess THEN << >> ELSE << "Acceso bloqueado" >>)
    \o (IF passBase THEN << >> ELSE << "Base inestable (Requiere tabs/mordazas)" >>)

\* the verdict and its reasons, from the four pass flags
isThreeAxisMachableOf(passUndercuts, passTop, passAccess, passBase) ==
    passUndercuts /\ passTop /\ passAccess

failsOf(passUndercuts, passTop, passAccess, passBase) ==
    (IF passUndercuts THEN << >> ELSE << "Undercuts (Socavados/Panza)" >>)
    \o (IF passTop THEN << >> ELSE << "Caras Invertidas" >>)
    \o (IF passAccess THEN << >> ELSE << "Acceso bloqueado" >>)

warningsOf(passUndercuts, passTop, passAccess, passBase) ==
    IF passBase THEN << >> ELSE << "Base inestable (Requiere tabs/mordazas)" >>

\* the triangles with their normals and their boxes in the plane
meshTriangles(positions, cells) ==
    [i \in 1..Len(cells) |->
        LET p0 == positions[cells[i][1]]
            p1 == positions[cells[i][2]]
            p2 == positions[cells[i][3]]
        IN  [p0 |-> p0, p1 |-> p1, p2 |-> p2, n |-> triNormal(p0, p1, p2),
             bb |-> triXYBounds(p0, p1, p2)]]

\* the loop over the grid: the columns that hit, each with what it saw
sampleColumns(tris, grid, b, cosSq) ==
    { c \in { [at |-> g, saw |-> castColumn(tris, g[1], g[2], grid - 1, b, cosSq)] :
                g \in (0..grid - 1) \X (0..grid - 1) } : c.saw.hit }

\* the most populated bin of the lowest contacts, over the samples
baseOkRatioOf(hitColumns, diagSq) ==
    LET bins == { <<z, baseBin(z, diagSq)>> : z \in { c.saw.zLow : c \in hitColumns } }
        countIn(k) == Cardinality({ c \in hitColumns : <<c.saw.zLow, k>> \in bins })
    IN  IF hitColumns = {} THEN <<1, 1>>
        ELSE Ratio(SetMax({ countIn(zb[2]) : zb \in bins }), Cardinality(hitColumns))

\* the result record, from the figures, the verdict and its reasons
machinabilityRecord(figures, verdict, fails, warnings) ==
    [isThreeAxisMachable |-> verdict,
     accessibilityScore |-> figures.accessibilityScore,
     topFaceDownRatio |-> figures.topFaceDownRatio,
     undercutRatio |-> figures.undercutRatio,
     overhangRatio |-> figures.undercutRatio,
     baseFlatRatio |-> figures.baseOkRatio,
     samples |-> figures.samples,
     details |-> IF fails # << >> THEN "ERROR"
                 ELSE IF warnings # << >> THEN "WARN" ELSE "OK",
     failureReason |-> IF fails # << >> THEN << fails >> ELSE << >>,
     warnings |-> << warnings >>]

\* the verdict, the reasons and the warnings, from the four pass flags
machinabilityVerdict(figures, passUndercuts, passTop, passAccess, passBase) ==
    machinabilityRecord(figures,
        isThreeAxisMachableOf(passUndercuts, passTop, passAccess, passBase),
        failsOf(passUndercuts, passTop, passAccess, passBase),
        warningsOf(passUndercuts, passTop, passAccess, passBase))

\* the thresholds on the figures
machinabilityFigures(figures) ==
    machinabilityVerdict(figures,
        RatioAtMost(figures.undercutRatio, 2, 100),
        RatioAtMost(figures.topFaceDownRatio, 2, 100),
        figures.accessibilityScore >= 95,
        RatioAtLeast(figures.baseOkRatio, 85, 100))

\* a score left as a fraction of one
accessibilityScoreAsFraction(ok, samples) ==
    IF samples > 0 THEN MathRound(ok, samples) ELSE 0

\* the share of the sampled columns that are ok, in percent
accessibilityScoreOf(ok, samples) ==
    IF samples > 0 THEN MathRound(100 * ok, samples) ELSE 0

\* the counts of the loop made ratios
machinabilityOf(hitColumns, diagSq) ==
    LET samples == Cardinality(hitColumns)
        ok == Cardinality({ c \in hitColumns : c.saw.ok })
        undercuts == Cardinality({ c \in hitColumns : c.saw.undercut })
        topFaceDown == Cardinality({ c \in hitColumns : c.saw.topDown })
    IN  machinabilityFigures(
            [undercutRatio |-> IF samples > 0 THEN Ratio(undercuts, samples) ELSE <<0, 1>>,
             topFaceDownRatio |->
                 IF samples > 0 THEN Ratio(topFaceDown, samples) ELSE <<0, 1>>,
             accessibilityScore |-> accessibilityScoreOf(ok, samples),
             baseOkRatio |-> baseOkRatioOf(hitColumns, diagSq),
             samples |-> samples])

computeMachinabilityFromMesh(positions, cells, opts) ==
    IF Len(cells) = 0 THEN NoMachinability("Sin triangulos validos.")
    ELSE machinabilityOf(
             sampleColumns(meshTriangles(positions, cells), gridOf(opts), bbox(positions),
                           cosMaxSq(opts)),
             bbox(positions).diagSq)

---------------------------------------------------------------------------
(* convexity.ts: the convexity figures of analyzeConvexity.  A volume is     *)
(* kept times 48 (the 6 of meshVolume times the 8 of doubled coordinates),   *)
(* a confidence times 25.                                                   *)

\* applyRotation of convexity.ts: the formulas of rotateVertex on positions
rotatePositions(positions, rot) ==
    [i \in 1..Len(positions) |-> rotateVertex(positions[i], rot)]

\* the optional rotation about the centre of the bounding box; << >> is the
\* argument left out.  (The meshes rotated have a centre on the grid.)
centred(positions, b) ==
    [i \in 1..Len(positions) |->
        Sub(positions[i], Vec((b.min.x + b.max.x) \div 2, (b.min.y + b.max.y) \div 2,
                              (b.min.z + b.max.z) \div 2))]

rotateAboutCentre(positions, rot) ==
    IF rot = << >> \/ Len(positions) = 0 THEN positions
    ELSE IF IsZeroRotation(rot) THEN positions
    ELSE rotatePositions(centred(positions, bbox(positions)), rot)

\* posN times 2 * diag: the positions about the centre of the box, doubled
posN(positions, b) ==
    [i \in 1..Len(positions) |->
        Vec(2 * positions[i].x - (b.min.x + b.max.x),
            2 * positions[i].y - (b.min.y + b.max.y),
            2 * positions[i].z - (b.min.z + b.max.z))]

\* meshVolume times 6: the sum over the cells of v0 . (e1 x e2)
RECURSIVE meshVolumeUpTo(_, _, _)
meshVolumeUpTo(cells, positions, n) ==
    IF n = 0 THEN 0
    ELSE meshVolumeUpTo(cells, positions, n - 1)
         + Dot(positions[cells[n][1]],
               Cross(Sub(positions[cells[n][2]], positions[cells[n][1]]),
                     Sub(positions[cells[n][3]], positions[cells[n][1]])))

meshVolume(cells, positions) == meshVolumeUpTo(cells, positions, Len(cells))

\* a * diag <= b, for a length diag given by its square and integers a, b
TimesDiagAtMost(a, b, diagSq) ==
    IF a <= 0 THEN b >= 0 \/ a * a * diagSq >= b * b
    ELSE b >= 0 /\ a * a * diagSq <= b * b

\* Math.round(x * kf) of the hull point filter, kf = 10, for x = q / (2 diag):
\* the k with k - 1/2 <= 5 q / diag < k + 1/2
hullKey(q, diagSq) ==
    CHOOSE k \in -5..5 : /\ TimesDiagAtMost(2 * k - 1, 10 * q, diagSq)
                         /\ ~TimesDiagAtMost(2 * k + 1, 10 * q, diagSq)

RECURSIVE Ascending(_)
Ascending(S) == IF S = {} THEN << >> ELSE << SetMin(S) >> \o Ascending(S \ {SetMin(S)})

\* hullPts: the first position of each key, in the order of the positions
hullPts(pts, diagSq) ==
    LET K == [i \in 1..Len(pts) |-> << hullKey(pts[i].x, diagSq), hullKey(pts[i].y, diagSq),
                                       hullKey(pts[i].z, diagSq) >>]
        firsts == Ascending({ i \in 1..Len(pts) : \A j \in 1..(i - 1) : K[j] # K[i] })
    IN  [n \in 1..Len(firsts) |-> pts[firsts[n]]]

\* do the points span space: four of them are not in one plane
spansSpace(points) ==
    \E i, j, k, m \in 1..Len(points) :
        Dot(Cross(Sub(points[j], points[i]), Sub(points[k], points[i])),
            Sub(points[m], points[i])) # 0

\* is (i, j, k) a triangle of the hull's faces: its plane has every point
\* on it or behind it, i is the first point on that plane, and j -> k is a
\* side of the face with no point between, the face to its left
isHullFace(points, i, j, k, N) ==
    /\ N # Vec(0, 0, 0)
    /\ \A m \in 1..Len(points) : Dot(N, Sub(points[m], points[i])) <= 0
    /\ \A m \in 1..(i - 1) : Dot(N, Sub(points[m], points[i])) # 0
    /\ \A m \in 1..Len(points) :
          Dot(N, Sub(points[m], points[i])) = 0 =>
              /\ Dot(N, Cross(Sub(points[k], points[j]), Sub(points[m], points[j]))) >= 0
              /\ ~(/\ Cross(Sub(points[k], points[j]), Sub(points[m], points[j])) = Vec(0, 0, 0)
                   /\ Dot(Sub(points[m], points[j]), Sub(points[m], points[k])) < 0)

RECURSIVE SeqOf(_)
SeqOf(S) == IF S = {} THEN << >>
            ELSE LET x == CHOOSE y \in S : TRUE IN << x >> \o SeqOf(S \ {x})

\* convexHull of the convex-hull package: the faces of the hull as triangles
\* wound outward, none when the points do not span space
convexHull(points) ==
    IF ~spansSpace(points) THEN << >>
    ELSE SeqOf({ c \in (1..Len(points)) \X (1..Len(points)) \X (1..Len(points)) :
                   /\ c[1] # c[2] /\ c[2] # c[3] /\ c[1] # c[3]
                   /\ isHullFace(points, c[1], c[2], c[3],
                                 triNormal(points[c[1]], points[c[2]], points[c[3]])) })

\* p / q < r / s for naturals p, r and positive q, s, without a product
RECURSIVE FracLess(_, _, _, _)
FracLess(p, q, r, s) ==
    IF p \div q # r \div s THEN p \div q < r \div s
    ELSE IF r % s = 0 THEN FALSE
    ELSE IF p % q = 0 THEN TRUE
    ELSE FracLess(s, r % s, q, p % q)

\* the angle of two normals is over 5 degrees: cos^2 (5 deg) = 0.992404
ANG_MIN_SQ == << 992404, 1000000 >>
dotBelowAngMin(n1, n2) ==
    \/ Dot(n1, n2) <= 0
    \/ FracLess(Dot(n1, n2) * Dot(n1, n2), Dot(n1, n1) * Dot(n2, n2),
                ANG_MIN_SQ[1], ANG_MIN_SQ[2])

\* s < 0 for s = (n1 / |n1| + n2 / |n2|) . v, from a = n1 . v and b = n2 . v
sumOfNormalsInward(a, b, n1, n2) ==
    IF a >= 0 /\ b >= 0 THEN FALSE
    ELSE IF a <= 0 /\ b <= 0 THEN a < 0 \/ b < 0
    ELSE IF a < 0 THEN FracLess(b * b, a * a, Dot(n2, n2), Dot(n1, n1))
    ELSE FracLess(a * a, b * b, Dot(n1, n1), Dot(n2, n2))

\* the edges of the cells with the first two cells on each
edgeTable(cells) ==
    LET edgesOf(i) == { {cells[i][1], cells[i][2]}, {cells[i][2], cells[i][3]},
                        {cells[i][3], cells[i][1]} }
        users(e) == { i \in 1..Len(cells) : e \in edgesOf(i) }
    IN  { [edge |-> e, count |-> Min2(2, Cardinality(users(e))),
           first |-> SetMin(users(e)),
           second |-> IF Cardinality(users(e)) > 1
                      THEN SetMin(users(e) \ {SetMin(users(e))}) ELSE 0] :
            e \in UNION { edgesOf(i) : i \in 1..Len(cells) } }

\* is the paired edge concave; c is the sum of the positions, v is
\* 2 * Len(positions) times the vector from the centroid to the middle
isConcaveEdge(positions, e, n1, n2, c) ==
    LET ab == Ascending(e.edge)
        v == Vec(Len(positions) * (positions[ab[1]].x + positions[ab[2]].x) - 2 * c.x,
                 Len(positions) * (positions[ab[1]].y + positions[ab[2]].y) - 2 * c.y,
                 Len(positions) * (positions[ab[1]].z + positions[ab[2]].z) - 2 * c.z)
    IN  dotBelowAngMin(n1, n2) /\ sumOfNormalsInward(Dot(n1, v), Dot(n2, v), n1, n2)

RECURSIVE sumOfPositions(_, _)
sumOfPositions(positions, n) ==
    IF n = 0 THEN Vec(0, 0, 0)
    ELSE LET r == sumOfPositions(positions, n - 1)
         IN  Vec(r.x + positions[n].x, r.y + positions[n].y, r.z + positions[n].z)

edgeStatsOf(edgeCount, boundary, paired, concave) ==
    [concaveRatio |-> IF paired > 0 THEN Ratio(concave, paired) ELSE <<1, 1>>,
     boundaryRatio |-> Ratio(boundary, Max2(1, edgeCount)),
     watertight |-> boundary = 0,
     edgeCount |-> edgeCount]

countEdges(positions, tris, edges, c) ==
    edgeStatsOf(Cardinality(edges),
                Cardinality({ e \in edges : e.count = 1 }),
                Cardinality({ e \in edges : e.count = 2 }),
                Cardinality({ e \in edges :
                    /\ e.count = 2
                    /\ isConcaveEdge(positions, e, tris[e.first].n, tris[e.second].n, c) }))

buildEdgeStats(positions, cells) ==
    countEdges(positions, meshTriangles(positions, cells), edgeTable(cells),
               sumOfPositions(positions, Len(positions)))

\* groups of multiAxisConcavityRatios, top to bottom: a hit within
\* zEps = diag * 1e-6 of the last group joins it; their number
RECURSIVE countGroups(_, _, _)
countGroups(rest, last, diagSq) ==
    IF rest = {} THEN 0
    ELSE IF last # << >> /\ ~Beyond(1000000 * last[1], 1000000 * SetMax(rest), diagSq, 1, 1)
         THEN countGroups(rest \ {SetMax(rest)}, last, diagSq)
         ELSE 1 + countGroups(rest \ {SetMax(rest)}, << SetMax(rest) >>, diagSq)

\* the positions with the axis of the rays made the third coordinate:
\* rayAxisHit reads (y, z; x) for axis 0 and (x, z; y) for axis 1
alongAxis(positions, axis) ==
    [i \in 1..Len(positions) |->
        CASE axis = 0 -> Vec(positions[i].y, positions[i].z, positions[i].x)
          [] axis = 1 -> Vec(positions[i].x, positions[i].z, positions[i].y)
          [] OTHER -> positions[i]]

\* the columns of one axis whose ray meets more than two groups of hits
multiColumns(tris, s, b) ==
    { g \in (0..s) \X (0..s) :
        countGroups({ h[2] : h \in columnHits(tris, s * b.min.x + g[1] * b.dx,
                                              s * b.min.y + g[2] * b.dy, s) },
                    << >>, b.diagSq) > 2 }

\* multi / samples of one axis; every column of the grid is a sample
axisConcavityRatio(positions, cells, grid) ==
    IF Len(cells) = 0 THEN <<1, 1>>
    ELSE Ratio(Cardinality(multiColumns(meshTriangles(positions, cells), grid - 1,
                                        bbox(positions))),
               grid * grid)

MultiGridMin == 32
MultiGridMax == 200
multiAxisConcavityRatios(positions, cells, gridHint) ==
    [Z |-> axisConcavityRatio(alongAxis(positions, 2), cells,
                              Max2(MultiGridMin, Min2(gridHint, MultiGridMax))),
     X |-> axisConcavityRatio(alongAxis(positions, 0), cells,
                              Max2(MultiGridMin, Min2(gridHint, MultiGridMax))),
     Y |-> axisConcavityRatio(alongAxis(positions, 1), cells,
                              Max2(MultiGridMin, Min2(gridHint, MultiGridMax)))]

\* confidenceFromRatio with badGap = 0.05: round(100 * max(0, 1 - 20 (1 - r)))
confidenceFromRatio(ratio) ==
    IF ratio[1] >= ratio[2] THEN 100
    ELSE Max2(0, Min2(100, MathRound(Max2(0, 2000 * ratio[1] - 1900 * ratio[2]), ratio[2])))

\* the confidence times 25, after its penalties
confidenceOf(ratioRaw, multiPass, edgeStats) ==
    LET c0 == IF multiPass THEN 25 * confidenceFromRatio(ratioRaw)
              ELSE 25 * Min2(confidenceFromRatio(ratioRaw), 20)
        c1 == c0 - Min2(1000, MathRound(100000 * edgeStats.concaveRatio[1],
                                        edgeStats.concaveRatio[2]))
        c2 == IF edgeStats.watertight THEN c1
              ELSE Min2(c1, 1500)
                   - 25 * Min2(20, MathRound(100 * edgeStats.boundaryRatio[1],
                                             edgeStats.boundaryRatio[2]))
    IN  Max2(0, Min2(2500, c2))

\* isConvex with its three tests
isConvexOf(ratioRaw, multiPass, edgePass) ==
    multiPass /\ edgePass /\ (RatioAtLeast(ratioRaw, 99, 100) \/ ~RatioAtMost(ratioRaw, 95, 100))

\* the record of the main path, but for the machinability
convexityRecord(vMesh, vHull, ratioRaw, multiPass, edgeStats) ==
    [isConvex |-> isConvexOf(ratioRaw, multiPass, RatioAtMost(edgeStats.concaveRatio, 2, 1000)),
     meshVolume |-> vMesh,
     hullVolume |-> vHull,
     convexityRatio |-> IF ratioRaw[1] > ratioRaw[2] THEN <<1, 1>> ELSE ratioRaw,
     confidence |-> confidenceOf(ratioRaw, multiPass, edgeStats),
     error |-> "[DEBUG] V= | H= | ratio= | mach="]

convexityFigures(vMesh, vHull, multi, edgeStats) ==
    convexityRecord(vMesh, vHull, IF vHull > 0 THEN Ratio(vMesh, vHull) ELSE <<0, 1>>,
                    /\ RatioAtMost(multi.Z, 5, 1000) /\ RatioAtMost(multi.X, 5, 1000)
                    /\ RatioAtMost(multi.Y, 5, 1000),
                    edgeStats)

MultiGridCap == 100
\* lines 701-748 of analyzeConvexity, on the welded positions and the cells
\* wound outward
convexityOf(positions, cells, pts, opts) ==
    LET vMeshN == Abs(meshVolume(cells, pts))
        hull == hullPts(pts, bbox(positions).diagSq)
        vHullN == Abs(meshVolume(convexHull(hull), hull))
        multi == multiAxisConcavityRatios(positions, cells,
                     Min2(MultiGridCap, IF opts.grid = << >> THEN GridDefault
                                        ELSE opts.grid[1]))
        edgeStats == buildEdgeStats(positions, cells)
    IN  convexityFigures(vMeshN, vHullN, multi, edgeStats)

\* the record of the thin-box return, but for the machinability
thinResult ==
    [isConvex |-> FALSE, meshVolume |-> 0, hullVolume |-> 0, convexityRatio |-> <<0, 1>>,
     confidence |-> 0, error |-> "[DEBUG] Geometria 2D"]

\* the record of the catch, but for the machinability
catchResult(message) ==
    [isConvex |-> FALSE, meshVolume |-> 0, hullVolume |-> 0, convexityRatio |-> <<0, 1>>,
     confidence |-> 0, error |-> message]

---------------------------------------------------------------------------
(* The inputs tried *)

\* the last is a full turn about Z
Rotations == { Vec(0, 0, 0), Vec(1, 0, 0), Vec(0, 1, 2), Vec(0, 0, 4) }

SlicingChoices ==
    { [layerHeight |-> h, contourTol |-> 1, zigzag |-> zc, closeLoops |-> zc, topDown |-> td] :
        h \in {Resolution, Resolution + Resolution \div 2}, zc \in BOOLEAN, td \in BOOLEAN }

FeedChoices ==
    { [leadIn |-> Resolution \div 2, feedXY |-> 600 * Resolution, feedZ |-> 300 * Resolution],
      [leadIn |-> 0,                 feedXY |-> 600 * Resolution, feedZ |-> 600 * Resolution],
      [leadIn |-> Resolution \div 2, feedXY |-> 300 * Resolution, feedZ |-> 300 * Resolution],
      \* a feed of 600.5 mm/min
      [leadIn |-> 0, feedXY |-> 600 * Resolution + Resolution \div 2, feedZ |-> 300 * Resolution] }

MachineChoices ==
    { [zSafe |-> 5 * Resolution, leadIn |-> f.leadIn, feedXY |-> f.feedXY, feedZ |-> f.feedZ,
       xyMargin |-> Resolution, zBed |-> 0, zGap |-> g, snapBottomToBed |-> snap] :
        f \in FeedChoices, g \in 0..MaxGap, snap \in BOOLEAN }

GCodeChoices ==
    { [unitsMm |-> u, absolute |-> u, spindleOn |-> u, spindleRpm |-> 1000,
       zSafe |-> 5 * Resolution, precision |-> p] :
        u \in BOOLEAN, p \in (0..MaxPrecision) \cup {3} }

Unset == << >>

---------------------------------------------------------------------------
(* generateGCodeFromSTL, one action per stage *)

Init ==
    /\ pc = "start"
    /\ buffer \in Buffers
    /\ rotation \in Rotations
    /\ sp = Unset /\ mp = Unset /\ gcp = Unset
    /\ triangles = << >> /\ layers = << >> /\ moves = << >> /\ gcode = << >>
    /\ AnalysisIdle /\ WeldIdle /\ SliceIdle /\ HookIdle

Parse ==
    /\ pc = "start"
    /\ ~parseSTLThrows(buffer)
    /\ triangles' = parseSTL(buffer)
    /\ pc' = "parsed"
    /\ UNCHANGED <<buffer, rotation, sp, mp, gcp, layers, moves, gcode, avars, wvars, svars, hvars>>

\* the error leaves generateGCodeFromSTL: nothing is returned
ParseThrows ==
    /\ pc = "start"
    /\ parseSTLThrows(buffer)
    /\ pc' = "thrown"
    /\ UNCHANGED <<buffer, rotation, sp, mp, gcp, triangles, layers, moves, gcode, avars, wvars, svars, hvars>>

Rotate ==
    /\ pc = "parsed"
    /\ triangles' = rotateCentered(triangles, rotation)
    /\ pc' = "rotated"
    /\ UNCHANGED <<buffer, rotation, sp, mp, gcp, layers, moves, gcode, avars, wvars, svars, hvars>>

Slice ==
    /\ pc = "rotated"
    /\ \E params \in SlicingChoices :
          /\ sp' = params
          /\ layers' = sliceMesh(triangles, params)
    /\ pc' = "sliced"
    /\ UNCHANGED <<buffer, rotation, mp, gcp, triangles, moves, gcode, avars, wvars, svars, hvars>>

Build ==
    /\ pc = "sliced"
    /\ \E params \in MachineChoices :
          /\ mp' = params
          /\ moves' = translateMoves(buildMoves(layers, params), triangles, params)
    /\ pc' = "built"
    /\ UNCHANGED <<buffer, rotation, sp, gcp, triangles, layers, gcode, avars, wvars, svars, hvars>>

Emit ==
    /\ pc = "built"
    /\ \E params \in GCodeChoices :
          /\ gcp' = params
          /\ gcode' = generateGCode(moves,
                         [params EXCEPT !.zSafe = @ + zLiftOf(triangles, mp)])
    /\ pc' = "done"
    /\ UNCHANGED <<buffer, rotation, sp, mp, triangles, layers, moves, avars, wvars, svars, hvars>>

Next == Parse \/ ParseThrows \/ Rotate \/ Slice \/ Build \/ Emit

Spec == Init /\ [][Next]_vars

---------------------------------------------------------------------------
(* analyzeConvexity, one action per stage, as far as the machinability it   *)
(* returns.  The heights of the meshes analysed are not negative.           *)

\* an open rectangle, horizontal at height z, wound to face up or down
Sheet(x0, y0, x1, y1, z, up) ==
    IF up THEN << Tri(Vec(x0,y0,z), Vec(x1,y0,z), Vec(x0,y1,z)), Tri(Vec(x1,y0,z), Vec(x1,y1,z), Vec(x0,y1,z)) >>
    ELSE << Tri(Vec(x0,y0,z), Vec(x0,y1,z), Vec(x1,y0,z)), Tri(Vec(x1,y0,z), Vec(x0,y1,z), Vec(x1,y1,z)) >>

\* two boxes of one footprint with air between them
Stacked == createBox(0, 0, 0, 24, 16, 8) \o createBox(0, 0, 16, 24, 16, 24)
\* a plate with a small box hovering over one corner
Ledge == createBox(0, 0, 0, 24, 16, 8) \o createBox(0, 0, 10, 2, 2, 12)
\* the same with a larger box, over a twentieth of the plate
Shelf == createBox(0, 0, 0, 24, 16, 8) \o createBox(0, 0, 10, 4, 4, 12)
\* two open sheets side by side at two heights
Terrace == Sheet(0, 0, 8, 16, 8, TRUE) \o Sheet(8, 0, 16, 16, 0, TRUE)
\* a steep open sheet, rising 31 over a run of 2, beside a high flat sheet
Leaning ==
    << Tri(Vec(0,0,1), Vec(0,16,1), Vec(2,0,32)), Tri(Vec(2,0,32), Vec(0,16,1), Vec(2,16,32)) >>
    \o Sheet(0, 20, 2, 24, 32, TRUE)
\* one flat sheet: a mesh without thickness
Flat == Sheet(0, 0, 16, 8, 0, FALSE)
\* triangles without area
Sliver == << Tri(Vec(0,0,0), Vec(0,0,0), Vec(0,0,0)), Tri(Vec(0,0,0), Vec(8,8,8), Vec(16,16,16)) >>

Opts(grid, maxUpAngleDeg) == [grid |-> grid, maxUpAngleDeg |-> maxUpAngleDeg]

\* a closed box thin against its diagonal
Slab == createBox(0, 0, 0, 32, 32, 2)

Call(tris, opts, rot) == [stlInput |-> Stl(tris), options |-> opts, modelRotation |-> rot]

\* the calls tried: the buffer, the options and the rotation
AnalysisCalls ==
    { Call(m, Opts(<<16>>, << >>), << >>) :
        m \in { Plate, Cube, RaisedBox, Stacked, Ledge, Shelf, Terrace, Leaning, Flat,
                Sliver, Slab } }
    \cup { Call(m, Opts(<<32>>, <<600>>), Vec(0, 0, 0)) : m \in { Plate, Stacked, Leaning } }
    \cup { Call(m, Opts(<< >>, << >>), << >>) : m \in { Flat, Sliver } }
    \cup { Call(m, Opts(<<16>>, << >>), Vec(1, 0, 0)) : m \in { Plate, Cube, Slab, Flat } }
    \cup { Call(m, Opts(<<16>>, << >>), Vec(0, 1, 2)) : m \in { Plate, Stacked } }
    \cup { [stlInput |-> [count |-> 0, tris |-> << >>], options |-> Opts(<< >>, << >>),
            modelRotation |-> << >>],
           [stlInput |-> [count |-> 2, tris |-> Flat], options |-> Opts(<< >>, <<1200>>),
            modelRotation |-> << >>],
           [stlInput |-> [count |-> 3, tris |-> Flat], options |-> Opts(<<600>>, << >>),
            modelRotation |-> Vec(1, 0, 0)],
           [stlInput |-> CutStl(Cube), options |-> Opts(<<16>>, << >>), modelRotation |-> << >>],
           [stlInput |-> AsciiStl(Cube, 0), options |-> Opts(<<16>>, << >>),
            modelRotation |-> << >>],
           [stlInput |-> AsciiStl(Flat, 3), options |-> Opts(<<16>>, << >>),
            modelRotation |-> << >>] }

\* the calls tried after another call
SecondCalls ==
    { Call(m, Opts(<<16>>, << >>), << >>) : m \in { Plate, Terrace, Flat } }

\* a try block without the test for an empty mesh
thrownMessageWithoutEmpty(buf) ==
    IF parseIndexedSTL(buf).thrown
    THEN IF isAscii(buf) THEN << "STL ASCII malformado (vertices no multiplo de 9)." >>
         ELSE << "STL binario truncado." >>
    ELSE << >>

\* the message of the error the try block throws before it has a mesh, if
\* it throws one
thrownMessage(buf) ==
    IF parseIndexedSTL(buf).thrown
    THEN IF isAscii(buf) THEN << "STL ASCII malformado (vertices no multiplo de 9)." >>
         ELSE << "STL binario truncado." >>
    ELSE IF Len(parseIndexedSTL(buf).positions) < 3 \/ Len(parseIndexedSTL(buf).cells) < 1
    THEN << "STL sin triangulos validos." >>
    ELSE << >>

\* does the try block throw before it has a mesh
parseThrows(buf) == thrownMessage(buf) # << >>

InitAnalysis ==
    /\ apc = "start"
    /\ \E call \in AnalysisCalls :
          /\ stlInput = call.stlInput /\ options = call.options
          /\ modelRotation = call.modelRotation
    /\ mesh = << >> /\ mach = << >> /\ earlier = << >> /\ result = << >>
    /\ GenerationIdle /\ WeldIdle /\ SliceIdle /\ HookIdle

AnalyzeParse ==
    /\ apc = "start"
    /\ ~parseThrows(stlInput)
    /\ mesh' = [positions |-> parseIndexedSTL(stlInput).positions,
                cells |-> parseIndexedSTL(stlInput).cells]
    /\ apc' = "parsed"
    /\ UNCHANGED <<stlInput, options, modelRotation, mach, result, earlier, gvars, wvars, svars, hvars>>

AnalyzeCatch ==
    /\ apc = "start"
    /\ parseThrows(stlInput)
    /\ mach' = NoMachinability("Error global.")
    /\ result' = catchResult(thrownMessage(stlInput)[1])
    /\ apc' = "done"
    /\ UNCHANGED <<stlInput, options, modelRotation, mesh, earlier, gvars, wvars, svars, hvars>>

AnalyzeSanitize ==
    /\ apc = "parsed"
    /\ mesh' = sanitizeMesh(mesh.positions, mesh.cells)
    /\ apc' = "sanitized"
    /\ UNCHANGED <<stlInput, options, modelRotation, mach, result, earlier, gvars, wvars, svars, hvars>>

AnalyzeRotate ==
    /\ apc = "sanitized"
    /\ mesh' = [mesh EXCEPT !.positions = rotateAboutCentre(mesh.positions, modelRotation)]
    /\ apc' = "rotated"
    /\ UNCHANGED <<stlInput, options, modelRotation, mach, result, earlier, gvars, wvars, svars, hvars>>

AnalyzeWeld ==
    /\ apc = "rotated"
    /\ mesh' = weldMesh(mesh.positions, mesh.cells, GridEps)
    /\ apc' = "welded"
    /\ UNCHANGED <<stlInput, options, modelRotation, mach, result, earlier, gvars, wvars, svars, hvars>>

AnalyzeThin ==
    /\ apc = "welded"
    /\ isThinBBox(bbox(mesh.positions))
    /\ mach' = computeMachinabilityFromMesh(mesh.positions, mesh.cells, options)
    /\ result' = thinResult
    /\ apc' = "done"
    /\ UNCHANGED <<stlInput, options, modelRotation, mesh, earlier, gvars, wvars, svars, hvars>>

AnalyzeOrient ==
    /\ apc = "welded"
    /\ ~isThinBBox(bbox(mesh.positions))
    /\ mesh' = [mesh EXCEPT !.cells = orientFacesOutward(mesh.positions, mesh.cells)]
    /\ apc' = "oriented"
    /\ UNCHANGED <<stlInput, options, modelRotation, mach, result, earlier, gvars, wvars, svars, hvars>>

\* the volumes, the hull, the edges, the three axes, the verdict and the
\* confidence
AnalyzeConvexity ==
    /\ apc = "oriented"
    /\ result' = convexityOf(mesh.positions, mesh.cells,
                             posN(mesh.positions, bbox(mesh.positions)), options)
    /\ apc' = "measured"
    /\ UNCHANGED <<stlInput, options, modelRotation, mesh, mach, earlier, gvars, wvars, svars, hvars>>

\* the hull package given points that span no space: it may return no face,
\* which AnalyzeConvexity covers, or throw, which the catch turns into a
\* result
AnalyzeHullCatch ==
    /\ apc = "oriented"
    /\ ~spansSpace(hullPts(posN(mesh.positions, bbox(mesh.positions)),
                           bbox(mesh.positions).diagSq))
    /\ mach' = NoMachinability("Error global.")
    /\ result' = catchResult("convex-hull")
    /\ apc' = "done"
    /\ UNCHANGED <<stlInput, options, modelRotation, mesh, earlier, gvars, wvars, svars, hvars>>

AnalyzeMachinability ==
    /\ apc = "measured"
    /\ mach' = computeMachinabilityFromMesh(mesh.positions, mesh.cells, options)
    /\ apc' = "done"
    /\ UNCHANGED <<stlInput, options, modelRotation, mesh, result, earlier, gvars, wvars, svars, hvars>>

\* the function is pure: a second call starts from nothing but its arguments
AnalyzeAgain ==
    /\ apc = "done"
    /\ earlier = << >>
    /\ earlier' = << mach >>
    /\ \E call \in SecondCalls :
          /\ stlInput' = call.stlInput /\ options' = call.options
          /\ modelRotation' = call.modelRotation
    /\ mesh' = << >> /\ mach' = << >> /\ result' = << >>
    /\ apc' = "start"
    /\ UNCHANGED <<gvars, wvars, svars, hvars>>

NextAnalysis ==
    \/ AnalyzeParse \/ AnalyzeCatch \/ AnalyzeSanitize \/ AnalyzeRotate \/ AnalyzeWeld
    \/ AnalyzeThin \/ AnalyzeOrient \/ AnalyzeConvexity \/ AnalyzeHullCatch
    \/ AnalyzeMachinability \/ AnalyzeAgain

SpecAnalysis == InitAnalysis /\ [][NextAnalysis]_vars

---------------------------------------------------------------------------
(* weldMesh on its own, applied twice with one eps *)

MaxWeldEps == 4          \* largest eps tried, in grid steps

\* triangles with corners one and two steps apart
Crumpled ==
    << Tri(Vec(0,0,0), Vec(8,0,0), Vec(0,8,0)), Tri(Vec(9,0,0), Vec(8,8,0), Vec(1,8,0)),
       Tri(Vec(0,0,0), Vec(1,0,0), Vec(0,8,1)), Tri(Vec(2,1,0), Vec(10,0,0), Vec(2,9,-1)),
       Tri(Vec(-1,0,0), Vec(3,0,0), Vec(5,0,8)) >>

WeldInputs ==
    { Cube, Plate, Stacked, Ledge, Terrace, Leaning, Flat, Sliver, Slab, Crumpled,
      Flat \o Crumpled, Crumpled \o Sliver }

InitWeld ==
    /\ wpc = "start"
    /\ \E tris \in WeldInputs :
          weldIn = [positions |-> parseIndexedSTL(Stl(tris)).positions,
                    cells |-> parseIndexedSTL(Stl(tris)).cells]
    /\ weldEps \in 1..MaxWeldEps
    /\ welded = << >>
    /\ GenerationIdle /\ AnalysisIdle /\ SliceIdle /\ HookIdle

Weld ==
    /\ wpc = "start"
    /\ welded' = << weldMesh(weldIn.positions, weldIn.cells, weldEps) >>
    /\ wpc' = "welded"
    /\ UNCHANGED <<weldIn, weldEps, gvars, avars, svars, hvars>>

WeldAgain ==
    /\ wpc = "welded"
    /\ welded' = Append(welded, weldMesh(welded[1].positions, welded[1].cells, weldEps))
    /\ wpc' = "rewelded"
    /\ UNCHANGED <<weldIn, weldEps, gvars, avars, svars, hvars>>

NextWeld == Weld \/ WeldAgain

SpecWeld == InitWeld /\ [][NextWeld]_vars

---------------------------------------------------------------------------
(* Claims about the emitted program *)

Done == pc = "done"
IsCut(i) == moves[i].type = "G1"
FeedOf(i) == moves[i].feed
\* Every move of the pipeline has X, Y and Z, so each puts one line in the
\* body, which follows the header: six lines, seven with the spindle line.
BodyLine(i) == gcode[(IF gcp.spindleOn THEN 7 ELSE 6) + i]
HasF(i) == BodyLine(i).f # << >>

\* the indices of the cutting moves, in program order
CutIndices == SelectSeq([i \in 1..Len(moves) |-> i], IsCut)

\* the maximal runs of a sequence of move indices in which the feed stays the
\* same, as pairs <<first, last>> of positions in that sequence
FeedRuns(idx) ==
    LET same(j, k) == FeedOf(idx[j]) = FeedOf(idx[k])
        starts == { a \in 1..Len(idx) : a = 1 \/ ~same(a - 1, a) }
        endOf(a) == CHOOSE b \in a..Len(idx) :
                        /\ \A j \in a..b : same(a, j)
                        /\ (b = Len(idx) \/ ~same(a, b + 1))
    IN  { <<a, endOf(a)>> : a \in starts }

\* the maximal runs of consecutive cutting moves with one feed value, as
\* pairs <<first, last>> of move indices
ConsecutiveRuns ==
    LET ok(a, j) == IsCut(j) /\ FeedOf(j) = FeedOf(a)
        starts == { a \in 1..Len(moves) : IsCut(a) /\ (a = 1 \/ ~ok(a, a - 1)) }
        endOf(a) == CHOOSE b \in a..Len(moves) :
                        /\ \A j \in a..b : ok(a, j)
                        /\ (b = Len(moves) \/ ~ok(a, b + 1))
    IN  { <<a, endOf(a)>> : a \in starts }

\* C1 as stated: in every maximal run of consecutive cutting moves that
\* carry the same feed, exactly one line carries the F word.
C1_OneFeedWordPerConsecutiveRun ==
    Done => \A r \in ConsecutiveRuns :
                Cardinality({ i \in r[1]..r[2] : HasF(i) }) = 1

\* C1 amended: in every maximal run of cutting moves over which the feed
\* does not change, where the rapids between two cuts do not end a run,
\* exactly one line carries the F word, and it is the run's first line.
C1_OneFeedWordPerFeedRun ==
    Done => \A r \in FeedRuns(CutIndices) :
                { k \in r[1]..r[2] : HasF(CutIndices[k]) } = { r[1] }

\* a run of one feed that goes on across a rapid, with its single F word
C1_Witness ==
    /\ Done
    /\ \E r \in FeedRuns(CutIndices) :
          /\ CutIndices[r[2]] - CutIndices[r[1]] > r[2] - r[1]
          /\ HasF(CutIndices[r[1]])

\* C2: the program's first words after the two header comments are the units
\* code, the positioning code and G17, in that order, and its last line is M30.
C2_HeaderAndFooter ==
    Done =>
        LET code == SelectSeq(gcode, LAMBDA l : l.k # "comment")
        IN  /\ Len(code) >= 4
            /\ code[1] = Word(IF gcp.unitsMm THEN "G21" ELSE "G20")
            /\ code[2] = Word(IF gcp.absolute THEN "G90" ELSE "G91")
            /\ code[3] = Word("G17")
            /\ gcode[3] = code[1]
            /\ gcode[Len(gcode)] = Word("M30")

C2_Witness ==
    Done /\ Len(moves) > 0 /\ gcp.spindleOn /\ gcode[3] = Word("G21")
         /\ gcode[Len(gcode)] = Word("M30")

\* the lifted vertical range of the mesh that is cut
LiftedMinZ == getMeshBounds(triangles).min.z + zLiftOf(triangles, mp)
LiftedMaxZ == getMeshBounds(triangles).max.z + zLiftOf(triangles, mp)

\* C3 as stated: every Z word of the program lies within
\* [minZ + zLift, maxZ + zLift].  (A word is in thousandths.)
C3_EveryZWordInMeshRange ==
    Done => \A i \in 1..Len(gcode) :
                gcode[i].z # << >> =>
                    /\ gcode[i].z[1] * Resolution >= 1000 * LiftedMinZ
                    /\ gcode[i].z[1] * Resolution <= 1000 * LiftedMaxZ

\* C3 amended: the Z word of every cutting (G1) line lies within
\* [minZ + zLift, maxZ + zLift] widened by the rounding of the print, half a
\* unit of the last printed decimal.
C3_CutZWordInMeshRange ==
    Done => \A i \in 1..Len(moves) :
                IsCut(i) =>
                    LET w == BodyLine(i).z[1] * Resolution * Pow10(gcp.precision)
                        half == 500 * Resolution
                    IN  /\ w + half >= 1000 * LiftedMinZ * Pow10(gcp.precision)
                        /\ w - half <= 1000 * LiftedMaxZ * Pow10(gcp.precision)

\* a lifted mesh is cut, at its lowest plane
C3_Witness ==
    /\ Done
    /\ zLiftOf(triangles, mp) > 0
    /\ \E i \in 1..Len(moves) :
          IsCut(i) /\ BodyLine(i).z[1] = fmtNum(LiftedMinZ, gcp.precision)

\* C4: with snapBottomToBed, the Z word of every cutting line is at least
\* zBed + zGap.
C4_CutsStayAboveBedGap ==
    (Done /\ mp.snapBottomToBed) =>
        \A i \in 1..Len(moves) :
            IsCut(i) => BodyLine(i).z[1] * Resolution >= 1000 * (mp.zBed + mp.zGap)

\* every edge of the mesh lies on exactly two triangles
IsWatertight(tris) ==
    LET edgesOf(t) == { {t.v1, t.v2}, {t.v2, t.v3}, {t.v3, t.v1} }
        E == UNION { edgesOf(tris[i]) : i \in 1..Len(tris) }
    IN  \A e \in E : Cardinality({ i \in 1..Len(tris) : e \in edgesOf(tris[i]) }) = 2

\* C5: for a watertight mesh of vertical extent N, the number of layers
\* differs from ceil(N / layerHeight) by at most 1.
C5_LayerCountNearCeil ==
    (pc = "sliced" /\ IsWatertight(triangles)) =>
        LET b == getMeshBounds(triangles)
        IN  Abs(Len(layers) - CeilDiv(b.max.z - b.min.z, sp.layerHeight)) <= 1

---------------------------------------------------------------------------
(* Claims about the machinability returned *)

Returned == apc = "done"
Figures(m) == <<m.undercutRatio, m.overhangRatio, m.topFaceDownRatio, m.accessibilityScore>>
BaseWarning == "Base inestable (Requiere tabs/mordazas)"

\* C6: the result has isThreeAxisMachable exactly when undercutRatio <= 0.02,
\* topFaceDownRatio <= 0.02 and accessibilityScore >= 95, for every mesh and
\* every option set, the results made without ray casting included.
C6_VerdictIsTheThreeThresholds ==
    Returned =>
        (mach.isThreeAxisMachable <=>
            /\ RatioAtMost(mach.undercutRatio, 2, 100)
            /\ RatioAtMost(mach.topFaceDownRatio, 2, 100)
            /\ mach.accessibilityScore >= 95)

\* a pass with some undercut columns, within the two percent
C6_Witness ==
    Returned /\ mach.isThreeAxisMachable /\ mach.undercutRatio[1] > 0
             /\ mach.accessibilityScore < 100

\* the heights at which the vertical ray of each grid column meets the mesh
\* analysed, as pairs <<column, heights>>
ContactHeights ==
    LET b == bbox(mesh.positions)
        s == gridOf(options) - 1
        P(i, k) == mesh.positions[mesh.cells[i][k]]
        at(c, i) == rayZHit(s * b.min.x + c[1] * b.dx, s * b.min.y + c[2] * b.dy, s,
                            P(i, 1), P(i, 2), P(i, 3))
    IN  { <<c, { at(c, i)[1] : i \in { j \in 1..Len(mesh.cells) : at(c, j) # << >> } }>> :
            c \in (0..s) \X (0..s) }

\* the number of columns the result counts as undercut
UndercutColumns == mach.undercutRatio[1] * (mach.samples \div mach.undercutRatio[2])

\* C7: a column whose ray meets more than two distinct contact heights is
\* counted as an undercut; and a mesh in which more than 2% of the hit
\* columns are such columns gets isThreeAxisMachable = false and
\* undercutRatio > 0.
C7_AirGapColumnsAreUndercuts ==
    (Returned /\ mach.samples > 0) =>
        LET hit == { h \in ContactHeights : h[2] # {} }
            gapped == { h \in hit : Cardinality(h[2]) > 2 }
        IN  /\ mach.samples = Cardinality(hit)
            /\ UndercutColumns >= Cardinality(gapped)
            /\ (100 * Cardinality(gapped) > 2 * Cardinality(hit) =>
                   ~mach.isThreeAxisMachable /\ mach.undercutRatio[1] > 0)

\* the two stacked boxes: every hit column has the air gap, and the result
\* is a refusal with all columns undercut
C7_Witness ==
    /\ Returned
    /\ stlInput = Stl(Stacked)
    /\ ~mach.isThreeAxisMachable
    /\ mach.undercutRatio = <<1, 1>>
    /\ \A h \in ContactHeights : Cardinality(h[2]) = 4

SolidBoxes == { Plate, Cube, RaisedBox }

C9_ReasonExactlyWhenRefused ==
    Returned =>
        /\ (mach.failureReason # << >>) <=> ~mach.isThreeAxisMachable
        /\ ~mach.isThreeAxisMachable =>
              LET named == IF mach.failureReason = << >> THEN {}
                           ELSE { mach.failureReason[1][i] : i \in 1..Len(mach.failureReason[1]) }
              IN  /\ ~RatioAtMost(mach.undercutRatio, 2, 100) =>
                         "Undercuts (Socavados/Panza)" \in named
                  /\ ~RatioAtMost(mach.topFaceDownRatio, 2, 100) => "Caras Invertidas" \in named
                  /\ mach.accessibilityScore < 95 => "Acceso bloqueado" \in named

\* C10: two results with the same undercut, overhang, inverted-top and
\* accessibility figures have the same verdict whatever their baseFlatRatio;
\* failureReason never names the base; and where the list of warnings is
\* made, it holds the base warning exactly when baseFlatRatio < 0.85.
C10_BaseFlatnessOnlyWarns ==
    Returned =>
        /\ (earlier # << >> /\ Figures(earlier[1]) = Figures(mach)) =>
              earlier[1].isThreeAxisMachable = mach.isThreeAxisMachable
        /\ mach.failureReason # << >> =>
              \A i \in 1..Len(mach.failureReason[1]) : mach.failureReason[1][i] # BaseWarning
        /\ mach.warnings # << >> =>
              (mach.warnings[1] = << BaseWarning >> <=> ~RatioAtLeast(mach.baseFlatRatio, 85, 100))
        /\ mach.warnings # << >> =>
              (mach.warnings[1] = << >> <=> RatioAtLeast(mach.baseFlatRatio, 85, 100))

\* two results with the same figures, one on a flat base and one not, both
\* passed, the second with the warning
C10_Witness ==
    /\ Returned
    /\ earlier # << >>
    /\ Figures(earlier[1]) = Figures(mach)
    /\ earlier[1].baseFlatRatio = <<1, 1>>
    /\ ~RatioAtLeast(mach.baseFlatRatio, 85, 100)
    /\ mach.warnings = << << BaseWarning >> >>
    /\ earlier[1].isThreeAxisMachable /\ mach.isThreeAxisMachable

---------------------------------------------------------------------------
(* Claims about the ConvexityAnalysis returned *)

ThrownMessages ==
    { "STL binario truncado.", "STL ASCII malformado (vertices no multiplo de 9).", "STL sin triangulos validos.",
      "convex-hull" }
ResultFields == { "isConvex", "meshVolume", "hullVolume", "convexityRatio", "confidence", "error" }

\* the record of a failure: nothing convex, nothing measured, not machinable
IsFailureRecord ==
    /\ ~result.isConvex /\ result.meshVolume = 0 /\ result.hullVolume = 0
    /\ result.convexityRatio = <<0, 1>> /\ result.confidence = 0
    /\ ~mach.isThreeAxisMachable

\* the stages of a call: there is none for an error that leaves the function
AnalysisStages ==
    { "start", "parsed", "sanitized", "rotated", "welded", "oriented", "measured", "done" }

IsDegenerate ==
    \/ isThinBBox(bbox(mesh.positions))
    \/ meshVolume(mesh.cells, posN(mesh.positions, bbox(mesh.positions))) = 0
    \/ ~spansSpace(hullPts(posN(mesh.positions, bbox(mesh.positions)),
                           bbox(mesh.positions).diagSq))

\* C12: when the mesh is degenerate (no mesh volume, a hull that yields
\* nothing, or a bounding box without thickness) the result has every flag
\* false and every score zero, in particular isConvex = false and
\* machinability.isThreeAxisMachable = false, with a diagnostic text.
C12_DegenerateGivesAllFalse ==
    (Returned /\ mesh # << >> /\ IsDegenerate) =>
        /\ ~result.isConvex /\ ~mach.isThreeAxisMachable
        /\ result.convexityRatio = <<0, 1>> /\ result.confidence = 0
        /\ mach.accessibilityScore = 0
        /\ result.error # ""

---------------------------------------------------------------------------
(* Claims about the words of the program *)

\* a contour is cut: some polyline has a second point
SomeContourIsCut ==
    \E l \in 1..Len(layers) : \E k \in 1..Len(layers[l].polylines) :
        Len(layers[l].polylines[k].points) > 1

\* C15: with spindleOn the program has the word S followed by the given
\* spindleRpm, exactly as given; and when a contour is cut it has the word F
\* followed by the given feedXY, exactly as given.  (A word's value is in
\* thousandths, a feed in grid steps.)
C15_SpindleAndFeedWordsAsGiven ==
    Done =>
        /\ gcp.spindleOn => \E i \in 1..Len(gcode) : gcode[i].s = << gcp.spindleRpm >>
        /\ SomeContourIsCut =>
              \E i \in 1..Len(gcode) :
                  gcode[i].f # << >> /\ gcode[i].f[1] * Resolution = 1000 * mp.feedXY

---------------------------------------------------------------------------
(* Claims about the order of the moves *)

Built == pc \in { "built", "done" }

\* the polylines of all layers in order, each with its layer's Z
PolylinesInOrder ==
    Flatten([l \in 1..Len(layers) |->
        [k \in 1..Len(layers[l].polylines) |->
            [z |-> layers[l].z, points |-> layers[l].polylines[k].points]]])

IsMoveAt(move, type, x, y, z, feed) ==
    move.type = type /\ move.x = <<x>> /\ move.y = <<y>> /\ move.z = <<z>> /\ move.feed = feed

Between(c, a, b) == Min2(a, b) <= c /\ c <= Max2(a, b)

\* is there a lead-in for these points
HasLeadIn(pts, params) == params.leadIn > 0 /\ Len(pts) > 1

\* the moves of mvs from index a on are the group of the polyline pts of a
\* layer at z: rapid, plunge, lead-in if any, cuts, rapid
IsGroupAt(mvs, a, pts, z, params, lead) ==
    /\ a + lead + Len(pts) + 1 <= Len(mvs)
    /\ IsMoveAt(mvs[a], "G0", pts[1].x, pts[1].y, params.zSafe, << >>)
    /\ IsMoveAt(mvs[a + 1], "G1", pts[1].x, pts[1].y, z, <<params.feedZ>>)
    /\ lead = 1 =>
          /\ mvs[a + 2].type = "G1" /\ mvs[a + 2].z = <<z>>
          /\ mvs[a + 2].feed = <<params.feedXY>>
          /\ Between(mvs[a + 2].x[1], pts[1].x, pts[2].x)
          /\ Between(mvs[a + 2].y[1], pts[1].y, pts[2].y)
    /\ \A i \in 2..Len(pts) :
          IsMoveAt(mvs[a + lead + i], "G1", pts[i].x, pts[i].y, z, <<params.feedXY>>)
    /\ IsMoveAt(mvs[a + lead + Len(pts) + 1], "G0", pts[Len(pts)].x, pts[Len(pts)].y,
                params.zSafe, << >>)

\* the number of moves of the group of a polyline
GroupLen(pts, params) == Len(pts) + 2 + (IF HasLeadIn(pts, params) THEN 1 ELSE 0)

\* the index in the moves at which the group of polyline k starts
RECURSIVE GroupStart(_, _, _)
GroupStart(polys, k, params) ==
    IF k = 1 THEN 1
    ELSE GroupStart(polys, k - 1, params) + GroupLen(polys[k - 1].points, params)

AllGroupsInOrder(mvs, polys, params) ==
    /\ \A k \in 1..Len(polys) :
          IsGroupAt(mvs, GroupStart(polys, k, params), polys[k].points, polys[k].z, params,
                    IF HasLeadIn(polys[k].points, params) THEN 1 ELSE 0)
    /\ Len(mvs) = GroupStart(polys, Len(polys) + 1, params) - 1

\* C19: for every non-empty polyline of every layer buildMoves emits, in
\* this order: one rapid to the polyline's start at safe Z; one cutting move
\* down to the layer Z at feedZ; a lead-in cut if there is one; cutting moves
\* through the remaining points at feedXY, all at the layer Z; one rapid to
\* the polyline's end at safe Z.  Nothing else is emitted: every group
\* starts and ends with a rapid at safe Z, and no cut is at another Z than
\* its layer's.
C19_MoveGroupOrder ==
    Built => AllGroupsInOrder(buildMoves(layers, mp), PolylinesInOrder, mp)

\* two polylines or more, one of them of three points or more with a lead-in
C19_Witness ==
    /\ Built
    /\ Len(PolylinesInOrder) > 1
    /\ \E k \in 1..Len(PolylinesInOrder) :
          /\ Len(PolylinesInOrder[k].points) > 2
          /\ HasLeadIn(PolylinesInOrder[k].points, mp)
    /\ Len(moves) = Len(buildMoves(layers, mp))

\* does line i of the program carry an explicit G0 or G1
HasMotionToken(i) == gcode[i].g \in { "G0", "G1" }

\* C20 as stated: a motion-type token is written on a line only if the
\* motion type changed since the previous line: no two consecutive lines of
\* the program both carry an explicit G0, or both an explicit G1.
C20_NoTwoConsecutiveEqualTokens ==
    Done => \A i \in 1..(Len(gcode) - 1) :
                ~(HasMotionToken(i) /\ gcode[i + 1].g = gcode[i].g)

\* C20 amended: the line of a move carries the motion-type token exactly
\* when the move is the first or its type differs from the type of the move
\* before it, so no two consecutive lines of moves carry the same token;
\* the safe-height lines of the header and of the footer carry G0 always.
C20_TokenOnChangeOfMoveType ==
    Done =>
        /\ \A i \in 1..Len(moves) :
              BodyLine(i).g = (IF i = 1 \/ moves[i].type # moves[i - 1].type
                               THEN moves[i].type ELSE "")
        /\ gcode[6].g = "G0"
        /\ gcode[Len(gcode) - (IF gcp.spindleOn THEN 2 ELSE 1)].g = "G0"

\* a cut after a cut, its line without a token; and the last retract with
\* its G0 followed by the G0 of the footer
C20_Witness ==
    /\ Done
    /\ \E i \in 2..Len(moves) :
          moves[i].type = "G1" /\ moves[i - 1].type = "G1" /\ BodyLine(i).g = ""
    /\ Len(moves) > 0
    /\ BodyLine(Len(moves)).g = "G0"
    /\ BodyLine(Len(moves) + 1).g = "G0"

---------------------------------------------------------------------------
(* Claims about the rotation *)

\* the program of a triangle list already rotated
programOfTriangles(tris, slicing, machine, gcodeParams) ==
    generateGCode(translateMoves(buildMoves(sliceMesh(tris, slicing), machine), tris, machine),
                  [gcodeParams EXCEPT !.zSafe = @ + zLiftOf(tris, machine)])

\* generateGCodeFromSTL as one function of its arguments
generateGCodeFromSTL(buf, rot, slicing, machine, gcodeParams) ==
    programOfTriangles(rotateCentered(parseSTL(buf), rot), slicing, machine, gcodeParams)

\* C16: called with a rotation that has x, y or z other than zero,
\* generateGCodeFromSTL returns a program different from the one it returns
\* for the same mesh with rotation (0, 0, 0) and otherwise equal parameters.
C16_RotationChangesProgram ==
    (Done /\ ~IsZeroRotation(rotation)) =>
        gcode # generateGCodeFromSTL(buffer, Vec(0, 0, 0), sp, mp, gcp)

\* closed boxes: convex solids
ConvexSolids == { Cube, Plate, RaisedBox, Slab }

\* C17: for a convex solid analyzeConvexity returns isConvex = true, with no
\* rotation and with every modelRotation alike.
C17_ConvexSolidIsConvexUnderRotation ==
    (Returned /\ stlInput \in { Stl(m) : m \in ConvexSolids }) => result.isConvex

---------------------------------------------------------------------------
(* Claims about the two loaders *)

\* is the buffer one the loader's contract refuses: a binary STL shorter than
\* its declared count needs, or a text whose numbers do not come in nines
IsMalformed(buf) ==
    IF isAscii(buf) THEN buf.floats % 9 # 0 ELSE byteLength(buf) < 84 + 50 * buf.count

\* C13: a binary STL buffer shorter than 84 + 50 x count bytes, or an ASCII
\* STL whose vertex numbers are not a multiple of 9, makes the call fail;
\* no NC program is produced from such a buffer.
C13_MalformedBufferGivesNoProgram ==
    IsMalformed(buffer) => gcode = << >>

---------------------------------------------------------------------------
(* Claims about weldMesh *)

\* C14: weldMesh is idempotent: welding the output of weldMesh again with
\* the same eps returns the same number of vertices and the same number of
\* triangles; no further vertex is merged and no further triangle dropped.
C14_WeldIsIdempotent ==
    wpc = "rewelded" =>
        /\ Len(welded[2].positions) = Len(welded[1].positions)
        /\ Len(welded[2].cells) = Len(welded[1].cells)

\* a first weld that merged vertices and dropped a triangle, welded again
C14_Witness ==
    /\ wpc = "rewelded"
    /\ Len(welded[1].positions) < Len(weldIn.positions)
    /\ 0 < Len(welded[1].cells)
    /\ Len(welded[1].cells) < Len(weldIn.cells)
    /\ welded[2] = welded[1]

\* the triangles analyzeConvexity analyses: those the loader of convexity.ts
\* decodes and sanitizeMesh keeps
analysedTriangles(buf) ==
    LET m == sanitizeMesh(parseIndexedSTL(buf).positions, parseIndexedSTL(buf).cells)
    IN  { Tri(m.positions[m.cells[i][1]], m.positions[m.cells[i][2]],
              m.positions[m.cells[i][3]]) : i \in 1..Len(m.cells) }

\* C18: the generation decodes its input as the analysis does: for every
\* buffer the loader of the analysis accepts, binary or ASCII,
\* generateGCodeFromSTL decodes it too, and slices the set of non-degenerate
\* triangles that analyzeConvexity analyses.
C18_GenerationDecodesAsAnalysis ==
    ~parseIndexedSTL(buffer).thrown =>
        /\ pc # "thrown"
        /\ pc = "parsed" =>
              { triangles[i] : i \in 1..Len(triangles) } = analysedTriangles(buffer)

---------------------------------------------------------------------------
(* Claims about the slicer *)

Sliced == pc \in {"sliced", "built", "done"}

\* the plane heights sliceMesh computes for the mesh and the parameters held
PlaneHeights ==
    LET b == getMeshBounds(triangles)
    IN  computeLayers(b.min.z, b.max.z, sp.layerHeight, sp.topDown)

\* C21: computeLayers returns exactly N + 1 plane heights with
\* N = ceil((zMax - zMin) / layerHeight), evenly spaced, the lowest equal to
\* zMin and the highest equal to zMax, in ascending order, or in descending
\* order when topDown is set.
C21_PlanesSpanBothBounds ==
    Sliced =>
        LET b == getMeshBounds(triangles)
            zs == PlaneHeights
            N == CeilDiv(b.max.z - b.min.z, sp.layerHeight)
            lo == IF sp.topDown THEN zs[Len(zs)] ELSE zs[1]
            hi == IF sp.topDown THEN zs[1] ELSE zs[Len(zs)]
        IN  /\ Len(zs) = N + 1
            /\ \A i \in 1..(Len(zs) - 1) :
                  zs[i + 1] - zs[i] = (IF sp.topDown THEN -1 ELSE 1) * ((hi - lo) \div N)
            /\ lo = b.min.z
            /\ hi = b.max.z


\* what sliceMesh returns for the same mesh and parameters without zigzag
WithoutZigzag == sliceMesh(triangles, [sp EXCEPT !.zigzag = FALSE])

\* C22: with zigzag enabled, in the layer list returned by sliceMesh exactly
\* the layers at odd positions (counted from 0) have the point order of their
\* polylines reversed relative to the result with zigzag disabled; the layers
\* at even positions are unchanged.
C22_OddLayersReversed ==
    (Sliced /\ sp.zigzag) =>
        LET plain == WithoutZigzag
        IN  /\ Len(layers) = Len(plain)
            /\ \A l \in 1..Len(layers) :
                  /\ layers[l].z = plain[l].z
                  /\ Len(layers[l].polylines) = Len(plain[l].polylines)
                  /\ \A k \in 1..Len(layers[l].polylines) :
                        layers[l].polylines[k].points =
                            IF (l - 1) % 2 = 1
                            THEN Reverse(plain[l].polylines[k].points)
                            ELSE plain[l].polylines[k].points


\* what sliceMesh returns for the same mesh and parameters without closeLoops
WithoutCloseLoops == sliceMesh(triangles, [sp EXCEPT !.closeLoops = FALSE])

\* the first and the last point of a polyline are further apart than 1e-6
EndsApart(pts) == Len(pts) >= 2 /\ Hypot2(pts[1], pts[Len(pts)]) > 0

\* C23: with closeLoops enabled, every polyline of at least two points
\* returned by sliceMesh has its first and last points within 1e-6 of each
\* other; a copy of the first point is appended only when they were farther
\* apart than 1e-6, and a polyline gains at most one point.
C23_CloseLoopsClosesEveryPolyline ==
    (Sliced /\ sp.closeLoops) =>
        LET open == WithoutCloseLoops
        IN  /\ Len(layers) = Len(open)
            /\ \A l \in 1..Len(layers) :
                  /\ Len(layers[l].polylines) = Len(open[l].polylines)
                  /\ \A k \in 1..Len(layers[l].polylines) :
                        LET c == layers[l].polylines[k].points
                            o == open[l].polylines[k].points
                        IN  /\ Len(c) >= 2 => ~EndsApart(c)
                            /\ IF EndsApart(o)
                               \* the first point of the order cut is the copy
                               THEN c = Append(o, o[1]) \/ c = << o[Len(o)] >> \o o
                               ELSE c = o

\* a layer with a polyline that gained its closing point and a polyline that
\* was closed as the chaining left it
C23_Witness ==
    /\ Sliced /\ sp.closeLoops
    /\ \E l \in 1..Len(layers) :
          \E k1, k2 \in 1..Len(layers[l].polylines) :
              /\ Len(layers[l].polylines[k1].points)
                    = Len(WithoutCloseLoops[l].polylines[k1].points) + 1
              /\ Len(layers[l].polylines[k2].points) >= 2
              /\ layers[l].polylines[k2].points = WithoutCloseLoops[l].polylines[k2].points

---------------------------------------------------------------------------
(* Claims about the columns of computeMachinabilityFromMesh *)

\* n.z / |n| < c, for a threshold c >= 0 given by its square sq[1] / sq[2]
NzUnder(n, sq) == n.z < 0 \/ sq[2] * n.z * n.z < sq[1] * Dot(n, n)

\* the normal of the topmost contact of every grid column that hits the mesh
\* analysed, as pairs <<column, normal>>: the contact is the highest, and
\* among triangles meeting there the first of the list
TopNormals ==
    LET b == bbox(mesh.positions)
        s == gridOf(options) - 1
        P(i, k) == mesh.positions[mesh.cells[i][k]]
        at(c, i) == rayZHit(s * b.min.x + c[1] * b.dx, s * b.min.y + c[2] * b.dy, s,
                            P(i, 1), P(i, 2), P(i, 3))
        hitters(c) == { j \in 1..Len(mesh.cells) : at(c, j) # << >> }
        top(c) == SetMax({ at(c, j)[1] : j \in hitters(c) })
        first(c) == SetMin({ j \in hitters(c) : at(c, j)[1] = top(c) })
    IN  { <<c, triNormal(P(first(c), 1), P(first(c), 2), P(first(c), 3))>> :
            c \in { d \in (0..s) \X (0..s) : hitters(d) # {} } }

\* the number of columns the result counts as inverted tops
TopFaceDownColumns == mach.topFaceDownRatio[1] * (mach.samples \div mach.topFaceDownRatio[2])

\* C24: a sampled column counts toward topFaceDownRatio exactly when the
\* normal of its topmost contact deviates from +Z by more than maxUpAngle,
\* that is when the normal's Z component is below cos(maxUpAngle), after a Z
\* component below -0.95 has been coerced to +1; for every maxUpAngle in
\* [0, 89.9] degrees.
C24_InvertedTopIsBeyondMaxUpAngle ==
    (Returned /\ mach.samples > 0) =>
        LET steep == { t \in TopNormals :
                         /\ ~NzBelow(t[2], <<361, 400>>)
                         /\ NzUnder(t[2], cosMaxSq(options)) }
        IN  /\ mach.samples = Cardinality(TopNormals)
            /\ TopFaceDownColumns = Cardinality(steep)

---------------------------------------------------------------------------
(* Claims about orientFacesOutward *)

\* the mesh analyzeConvexity has before the orientation pass
weldedMesh(buf, rot) ==
    LET parsed == parseIndexedSTL(buf)
        clean == sanitizeMesh(parsed.positions, parsed.cells)
    IN  weldMesh(rotateAboutCentre(clean.positions, rot), clean.cells, GridEps)

\* normal . (triangleCentroid - meshCentroid) of one cell, times
\* 3 * Len(positions) and the length of the cross product
OutwardDot(positions, c) ==
    LET n == Len(positions)
        p0 == positions[c[1]]
        p1 == positions[c[2]]
        p2 == positions[c[3]]
        c3 == sumOfPositions(positions, n)
    IN  Dot(Cross(Sub(p1, p0), Sub(p2, p0)),
            Vec(n * (p0.x + p1.x + p2.x) - 3 * c3.x,
                n * (p0.y + p1.y + p2.y) - 3 * c3.y,
                n * (p0.z + p1.z + p2.z) - 3 * c3.z))

Oriented == apc \in {"oriented", "measured"}

\* C25: after orientFacesOutward every triangle satisfies
\* normal . (triangleCentroid - meshCentroid) >= 0; the pass keeps the
\* number of triangles and each triangle's vertex set, and applying it a
\* second time changes nothing.
C25_FacesPointAwayFromCentroid ==
    Oriented =>
        LET before == weldedMesh(stlInput, modelRotation).cells
        IN  /\ Len(mesh.cells) = Len(before)
            /\ \A i \in 1..Len(mesh.cells) :
                  /\ OutwardDot(mesh.positions, mesh.cells[i]) >= 0
                  /\ { mesh.cells[i][k] : k \in 1..3 } = { before[i][k] : k \in 1..3 }
            /\ orientFacesOutward(mesh.positions, mesh.cells) = mesh.cells

\* a mesh some of whose triangles were turned round and some were not
C25_Witness ==
    /\ Oriented
    /\ \E i, j \in 1..Len(mesh.cells) :
          /\ mesh.cells[i] # weldedMesh(stlInput, modelRotation).cells[i]
          /\ mesh.cells[j] = weldedMesh(stlInput, modelRotation).cells[j]
          /\ OutwardDot(mesh.positions, mesh.cells[i]) > 0

---------------------------------------------------------------------------
(* sliceAtZ on its own, stepped through its loops *)

\* one triangle with a corner below, a corner on and a corner above z = 8
Straddler == << Tri(Vec(0, 0, 0), Vec(8, 0, 8), Vec(0, 8, 16)) >>
\* two triangles sharing the edge that crosses z = 8
Crossers ==
    << Tri(Vec(0, 0, 0), Vec(8, 0, 2), Vec(4, 8, 16)),
       Tri(Vec(8, 0, 2), Vec(16, 0, 16), Vec(4, 8, 16)) >>

SliceMeshes == { Cube, Plate, FencedCube, SaddlePair, Straddler, Crossers }
SlicePlanes == { 0, 4, 8, 12, 16, 20 }
\* in hundredths of a millimetre; the last is wider than any mesh tried
SliceTolerances == { -1, 0, 1, 150, 5000 }

\* a polyline starts as its segment
polylineFromAnEnd(segment) == << segment[2] >>
polylineFrom(segment) == << segment[1], segment[2] >>

InitSlice ==
    /\ slpc = "start"
    /\ sliceIn \in [triangles : SliceMeshes, z : SlicePlanes, tolerance : SliceTolerances]
    /\ slSegments = << >> /\ slUsed = {} /\ slPoly = << >> /\ slPolylines = << >>
    /\ slIndex = 0
    /\ GenerationIdle /\ AnalysisIdle /\ WeldIdle /\ HookIdle

\* the loop over the triangles, and the return for a plane without segments
SliceSegments ==
    /\ slpc = "start"
    /\ slSegments' = planeSegments(sliceIn.triangles, sliceIn.z)
    /\ slpc' = IF Len(planeSegments(sliceIn.triangles, sliceIn.z)) = 0
               THEN "returned" ELSE "outer"
    /\ slIndex' = 1
    /\ UNCHANGED <<sliceIn, slUsed, slPoly, slPolylines, gvars, avars, wvars, hvars>>

\* the head of the for loop over the segments
SliceOuter ==
    /\ slpc = "outer"
    /\ IF slIndex > Len(slSegments)
       THEN /\ slpc' = "returned"
            /\ UNCHANGED <<slIndex, slUsed, slPoly>>
       ELSE IF slIndex \in slUsed
       THEN /\ slIndex' = slIndex + 1
            /\ UNCHANGED <<slpc, slUsed, slPoly>>
       ELSE /\ slPoly' = polylineFrom(slSegments[slIndex])
            /\ slUsed' = slUsed \cup {slIndex}
            /\ slpc' = "inner"
            /\ UNCHANGED slIndex
    /\ UNCHANGED <<sliceIn, slSegments, slPolylines, gvars, avars, wvars, hvars>>

\* one pass of the while loop: the first unused segment with an end within
\* the tolerance of the last point extends the polyline; without one the
\* polyline is pushed
SliceInner ==
    /\ slpc = "inner"
    /\ LET last == slPoly[Len(slPoly)]
           cand == { j \in 1..Len(slSegments) : j \notin slUsed /\
                       (Near(last, slSegments[j][1], sliceIn.tolerance)
                        \/ Near(last, slSegments[j][2], sliceIn.tolerance)) }
       IN  IF cand = {}
           THEN /\ slPolylines' = Append(slPolylines, [points |-> slPoly])
                /\ slPoly' = << >>
                /\ slIndex' = slIndex + 1
                /\ slpc' = "outer"
                /\ UNCHANGED slUsed
           ELSE /\ slPoly' = Append(slPoly,
                                IF Near(last, slSegments[SetMin(cand)][1], sliceIn.tolerance)
                                THEN slSegments[SetMin(cand)][2]
                                ELSE slSegments[SetMin(cand)][1])
                /\ slUsed' = slUsed \cup {SetMin(cand)}
                /\ UNCHANGED <<slpc, slIndex, slPolylines>>
    /\ UNCHANGED <<sliceIn, slSegments, gvars, avars, wvars, hvars>>

NextSlice == SliceSegments \/ SliceOuter \/ SliceInner

\* the function runs on until it returns
SpecSlice == InitSlice /\ [][NextSlice]_vars /\ WF_vars(NextSlice)

---------------------------------------------------------------------------
(* Claims about sliceAtZ *)

SliceReturned == slpc = "returned"

\* the points of the polylines, one less for each, summed
RECURSIVE StepsOf(_)
StepsOf(polys) ==
    IF polys = << >> THEN 0 ELSE Len(Head(polys).points) - 1 + StepsOf(Tail(polys))

\* C26: sliceAtZ terminates for every finite triangle list and every
\* tolerance, and on return every segment has been consumed by exactly one
\* polyline: no polyline is empty, and the polylines' point counts minus one
\* sum to the number of segments.
C26_SliceAtZTerminatesWithEverySegmentUsed ==
    /\ <>SliceReturned
    /\ [](SliceReturned =>
            /\ \A k \in 1..Len(slPolylines) : Len(slPolylines[k].points) > 0
            /\ StepsOf(slPolylines) = Len(slSegments)
            /\ slUsed = 1..Len(slSegments)
            /\ slPolylines = sliceAtZ(sliceIn.triangles, sliceIn.z, sliceIn.tolerance))

\* a return with several polylines, one of them extended by the inner loop
C26_Witness ==
    /\ SliceReturned
    /\ Len(slPolylines) > 1
    /\ \E k \in 1..Len(slPolylines) : Len(slPolylines[k].points) > 2
    /\ Len(slSegments) > Len(slPolylines)

\* the triangles with a corner strictly above the plane and a corner
\* strictly below it
Straddling(tris, z) ==
    { i \in 1..Len(tris) :
        /\ \E v \in {tris[i].v1, tris[i].v2, tris[i].v3} : v.z > z
        /\ \E v \in {tris[i].v1, tris[i].v2, tris[i].v3} : v.z < z }

\* C27: every triangle that has at least one vertex strictly above the
\* slicing plane and at least one vertex strictly below it contributes
\* exactly one segment to that layer, also when its third vertex lies
\* exactly on the plane.
C27_StraddlingTriangleGivesOneSegment ==
    slpc \in {"outer", "inner", "returned"} =>
        /\ Len(slSegments) >= Cardinality(Straddling(sliceIn.triangles, sliceIn.z))
        /\ \A i \in Straddling(sliceIn.triangles, sliceIn.z) :
              \E k \in 1..Len(slSegments) :
                  slSegments[k] = intersectTriangleWithPlane(sliceIn.triangles[i], sliceIn.z)

---------------------------------------------------------------------------
(* Claims about the accessibility score *)

AccessBlocked == "Acceso bloqueado"

\* C28: in computeMachinabilityFromMesh, whenever at least one column hits
\* the mesh (samples > 0), undercutRatio <= 0.02 and topFaceDownRatio <= 0.02
\* together imply accessibilityScore >= 95; so the blocked-access criterion
\* can be the only failed criterion only when samples = 0.
C28_LowRatiosGiveHighAccess ==
    Returned =>
        /\ (/\ mach.samples > 0
            /\ RatioAtMost(mach.undercutRatio, 2, 100)
            /\ RatioAtMost(mach.topFaceDownRatio, 2, 100))
           => mach.accessibilityScore >= 95
        /\ mach.failureReason = << << AccessBlocked >> >> => mach.samples = 0

\* columns were hit, some of them undercut, both ratios within their two
\* percent, and the score is below 100
C28_Witness ==
    /\ Returned
    /\ mach.samples > 0
    /\ mach.undercutRatio[1] > 0
    /\ RatioAtMost(mach.undercutRatio, 2, 100)
    /\ RatioAtMost(mach.topFaceDownRatio, 2, 100)
    /\ mach.accessibilityScore \in 95..99

---------------------------------------------------------------------------
(* useGcoder: the hook's state and its handlers.  An angle of the hook's    *)
(* modelRotation is a count of quarter turns; as a number it is held in     *)
(* thousandths, of a radian or of a degree.  What analyzeConvexity returns  *)
(* is kept as its verdict alone, either value.                              *)

MaxClicks == 6           \* handler calls per run

\* pi / 2, 2 pi and pi in thousandths
QuarterTurn == 1571
TwoPi == 6283
Pi == 3142

Files == { "a.stl", "b.stl" }
Axes == { "x", "y", "z" }

\* JavaScript's %: the sign of the dividend
JsRem(a, m) == IF a >= 0 THEN a % m ELSE -((-a) % m)

\* the number held for q quarter turns, in radians
RadiansOf(q) == q * QuarterTurn
\* r * (180 / Math.PI)
DegreesOf(r) == RoundHalfAway(Abs(r) * 180000, Pi) * (IF r < 0 THEN -1 ELSE 1)

\* a coercion that takes every rotation as radians
toRadiansAsGiven(rot) == rot

\* toRadiansMaybe of convexity.ts: angles beyond a full turn are degrees
toRadiansMaybe(rot) ==
    LET m == Max2(Abs(rot.x), Max2(Abs(rot.y), Abs(rot.z)))
        d2r(v) == RoundHalfAway(Abs(v) * Pi, 180000) * (IF v < 0 THEN -1 ELSE 1)
    IN  IF m > TwoPi THEN Vec(d2r(rot.x), d2r(rot.y), d2r(rot.z)) ELSE rot

\* what onAnalyze hands to analyzeConvexity: degrees, Y and Z swapped
rotationForAnalyzer(rot) ==
    Vec(DegreesOf(RadiansOf(rot.x)), DegreesOf(RadiansOf(rot.z)), DegreesOf(RadiansOf(rot.y)))

\* what convertToGCode hands to generateGCodeFromSTL: radians, Y and Z swapped
rotationForGCode(rot) == Vec(RadiansOf(rot.x), RadiansOf(rot.z), RadiansOf(rot.y))

\* the quarter turns a rotation in radians denotes, each within a full turn
QuartersOf(rot) ==
    LET q(v) == (RoundHalfAway(Abs(v), QuarterTurn) * (IF v < 0 THEN -1 ELSE 1)) % 4
    IN  Vec(q(rot.x), q(rot.y), q(rot.z))

InitHook ==
    /\ stlData = << >> /\ analysis = << >> /\ hookGcode = << >>
    /\ hookRotation = Vec(0, 0, 0)
    /\ isExpanded = FALSE /\ timers = {} /\ clicks = 0
    /\ GenerationIdle /\ AnalysisIdle /\ WeldIdle /\ SliceIdle

\* onDrop and onFileSelect, once the file is read
handleFileUpload ==
    /\ clicks < MaxClicks
    /\ \E file \in Files : stlData' = << file >>
    /\ analysis' = << >>
    /\ hookGcode' = << >>
    /\ hookRotation' = Vec(0, 0, 0)
    /\ clicks' = clicks + 1
    /\ UNCHANGED <<isExpanded, timers, gvars, avars, wvars, svars>>

rotateModel ==
    /\ clicks < MaxClicks
    /\ \E axis \in Axes, turns \in {-1, 1} :
          hookRotation' = [hookRotation EXCEPT ![axis] = JsRem(@ + turns, 4)]
    /\ analysis' = << >>
    /\ clicks' = clicks + 1
    /\ UNCHANGED <<stlData, hookGcode, isExpanded, timers, gvars, avars, wvars, svars>>

\* the verdict is the analysis's, or false from the catch
onAnalyze ==
    /\ clicks < MaxClicks
    /\ stlData # << >>
    /\ \E verdict \in BOOLEAN :
          analysis' = << [file |-> stlData[1], of |-> hookRotation,
                          passed |-> toRadiansMaybe(rotationForAnalyzer(hookRotation)),
                          isThreeAxisMachable |-> verdict] >>
    /\ clicks' = clicks + 1
    /\ UNCHANGED <<stlData, hookGcode, hookRotation, isExpanded, timers,
                   gvars, avars, wvars, svars>>

\* opening the panel sets the timer; its callback is the convertToGCode of
\* this render
onToggleExpandAndGenerate ==
    /\ clicks < MaxClicks
    /\ isExpanded' = ~isExpanded
    /\ timers' = IF isExpanded THEN timers
                 ELSE timers \cup { [stlData |-> stlData, analysis |-> analysis,
                                     modelRotation |-> hookRotation] }
    /\ clicks' = clicks + 1
    /\ UNCHANGED <<stlData, analysis, hookGcode, hookRotation, gvars, avars, wvars, svars>>

\* the timer fires: convertToGCode with the state it closed over.  A
\* generation that throws sets a gcode as well, the text of the error.
convertToGCode ==
    /\ \E t \in timers :
          /\ timers' = timers \ {t}
          /\ hookGcode' =
                IF t.stlData = << >> \/ t.analysis = << >> THEN hookGcode
                ELSE IF ~t.analysis[1].isThreeAxisMachable THEN hookGcode
                ELSE << [file |-> t.stlData[1], of |-> t.modelRotation,
                         passed |-> rotationForGCode(t.modelRotation)] >>
    /\ UNCHANGED <<stlData, analysis, hookRotation, isExpanded, clicks,
                   gvars, avars, wvars, svars>>

onRemoveFile ==
    /\ clicks < MaxClicks
    /\ stlData' = << >> /\ analysis' = << >> /\ hookGcode' = << >>
    /\ isExpanded' = FALSE
    /\ hookRotation' = Vec(0, 0, 0)
    /\ clicks' = clicks + 1
    /\ UNCHANGED <<timers, gvars, avars, wvars, svars>>

NextHook ==
    \/ handleFileUpload \/ rotateModel \/ onAnalyze \/ onToggleExpandAndGenerate
    \/ convertToGCode \/ onRemoveFile

SpecHook == InitHook /\ [][NextHook]_vars

---------------------------------------------------------------------------
(* Claims about the hook *)

\* C29: in the useGcoder hook, after any sequence of file upload,
\* rotateModel, onAnalyze, onToggleExpandAndGenerate (with its delayed
\* convertToGCode) and onRemoveFile, a gcode that is not null implies that
\* the hook also holds an analysis of the current file and the current
\* rotation whose machinability.isThreeAxisMachable is true.
C29_GcodeHasItsMachableAnalysis ==
    hookGcode # << >> =>
        /\ analysis # << >>
        /\ stlData = << analysis[1].file >>
        /\ analysis[1].of = hookRotation
        /\ analysis[1].isThreeAxisMachable

\* C30: for every rotation state reachable through rotateModel in steps of
\* 90 degrees either way, the rotation onAnalyze passes to analyzeConvexity
\* (degrees, coerced to radians by toRadiansMaybe) and the rotation
\* convertToGCode passes to generateGCodeFromSTL (radians) denote the same
\* Euler X, Y, Z angles: the orientation analysed is the orientation cut.
C30_AnalysedRotationIsCutRotation ==
    /\ toRadiansMaybe(rotationForAnalyzer(hookRotation)) = rotationForGCode(hookRotation)
    /\ (analysis # << >> /\ hookGcode # << >> /\ analysis[1].of = hookGcode[1].of) =>
          /\ analysis[1].passed = hookGcode[1].passed
          /\ QuartersOf(analysis[1].passed) = QuartersOf(hookGcode[1].passed)

\* an analysis and a gcode of one rotation, turned about two axes, one of
\* them backwards
C30_Witness ==
    /\ analysis # << >> /\ hookGcode # << >>
    /\ analysis[1].of = hookGcode[1].of
    /\ hookGcode[1].of.y < 0 /\ hookGcode[1].of.z > 0
    /\ hookGcode[1].passed.y > 0 /\ hookGcode[1].passed.z < 0

====
